---- MODULE Spec2Model ----
(***************************************************************************)
(* Model of the inarbit arbitrage engine (engine/src): process bootstrap   *)
(* (main.rs), exchange connectors (exchange.rs), the ticker fan-in and the *)
(* engine loop with its signal pipeline (strategy.rs), the risk gate       *)
(* (risk.rs) and the order executor with its OMS hand-off (executor.rs).   *)
(*                                                                         *)
(* Environment variables are strings; an unset variable is the value       *)
(* Unset.  Every network or Redis call draws its outcome with \E: the code *)
(* has a branch for each of them.                                          *)
(***************************************************************************)
EXTENDS Integers, Sequences, FiniteSets, TLC

VARIABLES
    env,            \* process environment (read with std::env::var)
    cfgExchanges,   \* config.exchanges: the enabled exchange ids
    store,          \* enabled rows of strategy_configs, by ascending priority
    mainPc,         \* position of main()
    exchanges,      \* HashMap<ExchangeId, Arc<ExchangeConnection>> (its keys)
    registry,       \* Engine.strategies: sequence of strategy instances
    running,        \* Engine.running
    active,         \* ExchangeConnection.active, per connector
    readerPc,       \* per connector: position of start() / its reader task
    sent,           \* per connector: tickers broadcast so far
    subscribed,     \* per connector: a broadcast receiver exists
    bq,             \* per connector: tickers retained for the receiver
    lag,            \* per connector: tickers the receiver has missed
    fpc,            \* per connector: position of the forwarder task
    fhold,          \* per connector: ticker the forwarder is sending
    mq,             \* central mpsc channel (ticker_tx / ticker_rx)
    rxAlive,        \* ticker_rx has not been dropped
    epc,            \* position of Engine::run
    execute_signals,\* Engine::run's local execute_signals
    ticker,         \* ticker being dispatched
    taken,          \* number of tickers taken from the central channel
    lastTaken,      \* per connector: sequence number of the last ticker taken
    sIdx,           \* index of the strategy in the for loop
    given,          \* on_ticker calls since the last ticker was taken:
                    \* <<strategy index, ticker passed>>, in call order
    cur,            \* signal in the pipeline with its risk verdict, or NoSignal
    pend,           \* signals emitted whose pipeline has not finished
    emitted,        \* number of signals the strategies have emitted
    clock,          \* chrono::Utc::now().timestamp_millis()
    metrics,        \* Redis metric counters
    executor,       \* OrderExecutor fields
    xpc,            \* position of OrderExecutor::execute
    xsig,           \* signal passed to execute
    xres,           \* result of execute
    xresult,        \* the ExecutionResult execute returned, or NoResult
    fx,             \* outside effects of the current execute call, in order
    pubs,           \* pub/sub publications of the signal in the pipeline
    decisions,      \* Redis sorted set decisions:latest
    oms,            \* the OMS: keys seen, requests and executions per signal
    calls,          \* number of execute calls made by the harness
    strat,          \* the strategy instance under test (config and state)
    stick,          \* the ticker of its last on_ticker call
    sout,           \* what that call returned: a signal or NoSignal
    shist           \* what the instance has been fed and has answered so far

mainVars == <<env, cfgExchanges, store, mainPc, exchanges, registry, running>>
connVars == <<active, readerPc, sent, subscribed, bq, lag>>
fanVars  == <<fpc, fhold, mq, rxAlive>>
engVars  == <<epc, execute_signals, ticker, taken, lastTaken, sIdx, given,
              cur, pend, emitted, clock, metrics>>
execVars == <<executor, xpc, xsig, xres, xresult, fx, pubs, decisions, oms>>
stratVars == <<strat, stick, sout, shist>>
vars == <<mainVars, connVars, fanVars, engVars, execVars, calls, stratVars>>

----------------------------------------------------------------------------
(* Bounds of the model *)

MaxTickers == 2     \* tickers one connector's reader broadcasts
MaxStrategies == 2  \* strategy rows the config store yields
MaxSignals == 2     \* signals the strategies emit in one run
MaxClock == 1       \* wall-clock milliseconds that pass during a run
MaxStamp == 2       \* timestamps of the signals handed to the executor harness
MaxCalls == 2       \* execute calls of the executor harness
BroadcastCap == 1   \* capacity of a connector's broadcast channel (1000 in the code)
MpscCap == 2        \* capacity of the central channel (1000 in the code)

----------------------------------------------------------------------------
(* Environment *)

Unset == "<unset>"

\* str::to_lowercase / eq_ignore_ascii_case on the strings of the model
Lower(s) ==
    CASE s = "LIVE" -> "live"
      [] s = "Live" -> "live"
      [] s = "TRUE" -> "true"
      [] s = "True" -> "true"
      [] s = "U1"   -> "u1"
      [] s = "Triangular"  -> "triangular"
      [] s = "Graph"       -> "graph"
      [] s = "FundingRate" -> "fundingrate"
      [] s = "Bybit"       -> "bybit"
      [] s = "Gate"        -> "gate"
      [] s = "Bitget"      -> "bitget"
      [] s = "Mexc"        -> "mexc"
      [] s = "Grid"        -> "grid"
      [] s = "Pair"        -> "pair"
      [] s = "Binance"     -> "binance"
      [] s = "Okx"         -> "okx"
      [] OTHER      -> s

ExecValues    == {Unset, "0", "1", "true", "True", "TRUE"}
ConfirmValues == {Unset, "CONFIRM_LIVE", "WRONG"}
UserValues    == {Unset, "", "u1", "U1"}

EnvNames == {"ENGINE_MODE", "ENGINE_EXECUTE_SIGNALS", "ENGINE_LIVE_CONFIRM",
             "ENGINE_USER_ID", "ENGINE_OMS_BASE", "ENGINE_OMS_TOKEN",
             "ENGINE_RISK_BASE"}

\* std::env::var(name).unwrap_or_default()
var_or_default(e, name) == IF e[name] = Unset THEN "" ELSE e[name]

\* config::load_config: mode = ENGINE_MODE or "simulation"
load_config_mode(e) ==
    IF e["ENGINE_MODE"] = Unset THEN "simulation" ELSE e["ENGINE_MODE"]

\* matches!(v.as_str(), "1" | "true" | "True"), false when unset
exec_signals_strict(e) == e["ENGINE_EXECUTE_SIGNALS"] \in {"1", "true", "True"}

\* OrderExecutor::live_enabled
live_enabled(e) ==
    /\ exec_signals_strict(e)
    /\ var_or_default(e, "ENGINE_LIVE_CONFIRM") = "CONFIRM_LIVE"

\* the mutant of main_live_blocked: ENGINE_EXECUTE_SIGNALS parsed as
\* Engine::run parses it
main_live_blocked_lenient(e) ==
    /\ Lower(load_config_mode(e)) = "live"
    /\ \/ ~(e["ENGINE_EXECUTE_SIGNALS"] # Unset
             /\ (e["ENGINE_EXECUTE_SIGNALS"] = "1"
                 \/ Lower(e["ENGINE_EXECUTE_SIGNALS"]) = "true"))
       \/ var_or_default(e, "ENGINE_LIVE_CONFIRM") # "CONFIRM_LIVE"

\* main's live gate: TRUE when main returns the "live mode blocked" error
main_live_blocked(e) ==
    /\ Lower(load_config_mode(e)) = "live"
    /\ \/ ~exec_signals_strict(e)
       \/ var_or_default(e, "ENGINE_LIVE_CONFIRM") # "CONFIRM_LIVE"

\* Engine::run: v == "1" || v.eq_ignore_ascii_case("true"), false when unset
run_execute_signals(e) ==
    LET v == e["ENGINE_EXECUTE_SIGNALS"]
    IN  v # Unset /\ (v = "1" \/ Lower(v) = "true")

\* OmsClient::from_env: Some iff base and token are set and non-empty
OmsClient_from_env(e) ==
    /\ e["ENGINE_OMS_BASE"] \notin {Unset, ""}
    /\ e["ENGINE_OMS_TOKEN"] \notin {Unset, ""}

\* RiskRemote::from_env: base is ENGINE_RISK_BASE, else ENGINE_OMS_BASE
RiskRemote_from_env(e) ==
    LET base == IF e["ENGINE_RISK_BASE"] # Unset THEN e["ENGINE_RISK_BASE"]
                ELSE e["ENGINE_OMS_BASE"]
    IN  /\ base \notin {Unset, ""}
        /\ e["ENGINE_OMS_TOKEN"] \notin {Unset, ""}

\* OrderExecutor::new: user_id = ENGINE_USER_ID filtered non-empty
executor_user_id(e) ==
    IF e["ENGINE_USER_ID"] \in {Unset, ""} THEN Unset ELSE e["ENGINE_USER_ID"]

----------------------------------------------------------------------------
(* Signals *)

StrategyTypes == {"Triangular", "Graph", "FundingRate", "Grid", "Pair"}
ExchangeIds   == {"Binance", "Okx"}
StrategyIds   == 1..(MaxStrategies + 1)   \* StrategyConfig.id (a Uuid)
Timestamps    == 1..(IF MaxClock > MaxStamp THEN MaxClock ELSE MaxStamp)
\* profit_rate in thousandths: a loss of 1 %, 4 % and 99.5 %
ProfitRates   == {-10, 40, 995}

\* per_trade_limit of the strategy configurations of a run, in USD
DefaultPerTradeLimit == 100

NoSignal == [strategy_type |-> "none"]

\* a Signal in the pipeline; profit_rate in thousandths, expected_profit in
\* thousandths of a USD
Signal(ty, id, ex, pm, ts) ==
    [strategy_type |-> ty, strategy_id |-> id, exchange |-> ex,
     expected_profit |-> pm * DefaultPerTradeLimit,
     profit_rate |-> pm, timestamp |-> ts]

\* the mutant of calc_risk_score: neither clamp is applied
calc_risk_score_unclamped(pm) == 1000 - pm

\* calc_risk_score, profit_rate in thousandths, the score in units
calc_risk_score(pm) ==
    LET base == IF 1000 - pm > 10 THEN 1000 - pm ELSE 10
    IN  IF base < 1000 THEN base ELSE 1000

\* OrderExecutor::build_decision_payload (the fields the model follows)
build_decision_payload(sig) ==
    [strategyType |-> Lower(sig.strategy_type),
     exchange |-> Lower(sig.exchange),
     expectedProfitRate |-> sig.profit_rate,
     riskScore |-> calc_risk_score(sig.profit_rate),
     timestamp |-> sig.timestamp]

\* OrderExecutor::publish_signal: format!("signal:{}:{}", user_id, lower(type))
executor_channel(user_id, sig) ==
    <<"signal", user_id, Lower(sig.strategy_type)>>

\* Engine::publish_signal: the whole channel name is lowercased
engine_channel(e, sig) ==
    IF e["ENGINE_USER_ID"] \notin {Unset, ""}
    THEN <<"signal", Lower(e["ENGINE_USER_ID"]), Lower(sig.strategy_type)>>
    ELSE <<"signal", Lower(sig.strategy_type)>>

\* the mutant of idempotency_key: the key carries the time of the call
idempotency_key_per_call(sig) == <<"engine", sig.strategy_id, calls + taken>>

\* execute: format!("engine:{}:{}", signal.strategy_id, signal.timestamp)
idempotency_key(sig) == <<"engine", sig.strategy_id, sig.timestamp>>

----------------------------------------------------------------------------
(* The OMS: executes a request unless it has seen its idempotency key.  Per *)
(* signal identity (strategy id, timestamp) it counts the requests it got   *)
(* and the executions it made.                                              *)

SigIdents == StrategyIds \X Timestamps
OmsInit == [seen |-> {}, reqs |-> [i \in SigIdents |-> 0],
            execs |-> [i \in SigIdents |-> 0]]

oms_receive(o, key, sig) ==
    LET i == <<sig.strategy_id, sig.timestamp>>
    IN  [seen |-> o.seen \cup {key},
         reqs |-> [o.reqs EXCEPT ![i] = @ + 1],
         execs |-> IF key \in o.seen THEN o.execs
                   ELSE [o.execs EXCEPT ![i] = @ + 1]]

----------------------------------------------------------------------------
(* OrderExecutor::execute, one step per await *)

Effect(op, what) == [op |-> op, what |-> what]

\* execute returned an Err, or has not returned
NoResult == [success |-> FALSE, orders |-> <<>>]

\* the mutant of simulate_execution: the fee is not taken off the profit
simulate_execution_no_fee(sig) ==
    [signal |-> sig,
     orders |-> <<[exchange |-> sig.exchange, symbol |-> "SIMULATED",
                   side |-> "Buy", status |-> "Filled",
                   filled_amount |-> 100000, avg_price |-> 1000,
                   fee |-> 100, latency_ms |-> 50]>>,
     total_fee |-> 100,
     net_profit |-> sig.expected_profit,
     success |-> TRUE]

\* OrderExecutor::simulate_execution: the fabricated result (the order id,
\* a random UUID, left out); amounts in thousandths
simulate_execution(sig) ==
    [signal |-> sig,
     orders |-> <<[exchange |-> sig.exchange, symbol |-> "SIMULATED",
                   side |-> "Buy", status |-> "Filled",
                   filled_amount |-> 100000, avg_price |-> 1000,
                   fee |-> 100, latency_ms |-> 50]>>,
     total_fee |-> 100,
     net_profit |-> sig.expected_profit - 100,
     success |-> TRUE]

\* execute lines 132-138: the result of a hand-off the OMS accepted
live_execution(sig, success) ==
    [signal |-> sig, orders |-> <<>>, total_fee |-> 0, net_profit |-> 0,
     success |-> success]

\* the mutant of XEntry: the live gate is not consulted
XEntry_no_gate ==
    /\ xpc = "entry"
    /\ IF executor.simulation_mode
       THEN xres' = "ok_sim" /\ xresult' = simulate_execution(xsig) /\ xpc' = "ret"
       ELSE xres' = xres /\ xresult' = xresult /\ xpc' = "publish_signal"
    /\ UNCHANGED <<executor, xsig, fx, pubs, decisions, oms>>

\* execute, lines 107-123: simulation shortcut, live gate
XEntry ==
    /\ xpc = "entry"
    /\ IF executor.simulation_mode
       THEN xres' = "ok_sim" /\ xresult' = simulate_execution(xsig) /\ xpc' = "ret"
       ELSE IF ~live_enabled(env)
            THEN xres' = "err_gate" /\ xresult' = NoResult /\ xpc' = "ret"
            ELSE xres' = xres /\ xresult' = xresult /\ xpc' = "publish_signal"
    /\ UNCHANGED <<executor, xsig, fx, pubs, decisions, oms>>

\* OrderExecutor::publish_signal: needs a Redis client and a user id; a
\* failed connection or publish is ignored
XPublishSignal ==
    /\ xpc = "publish_signal"
    /\ xpc' = "publish_decision"
    /\ \/ /\ executor.redis /\ executor.user_id # Unset
          /\ LET ch == executor_channel(executor.user_id, xsig)
             IN  /\ fx' = Append(fx, Effect("publish", ch))
                 /\ pubs' = pubs \cup {ch}
       \/ UNCHANGED <<fx, pubs>>
    /\ UNCHANGED <<executor, xsig, xres, xresult, decisions, oms>>

\* OrderExecutor::publish_decision and the `?` after it: ZADD scored by the
\* payload's riskScore, then EXPIRE 10; any failure returns the error
XPublishDecision ==
    /\ xpc = "publish_decision"
    /\ LET payload == build_decision_payload(xsig)
           entry == [payload |-> payload, score |-> payload.riskScore]
       IN
       \/ /\ ~executor.redis                      \* no client: Ok(())
          /\ xpc' = "oms"
          /\ UNCHANGED <<decisions, fx, xres, xresult>>
       \/ /\ executor.redis                       \* connection or ZADD fails
          /\ xpc' = "ret" /\ xres' = "err_decision" /\ xresult' = NoResult
          /\ UNCHANGED <<decisions, fx>>
       \/ /\ executor.redis                       \* ZADD done, EXPIRE fails
          /\ decisions' = decisions \cup {entry}
          /\ fx' = Append(fx, Effect("zadd", entry.score))
          /\ xpc' = "ret" /\ xres' = "err_decision" /\ xresult' = NoResult
       \/ /\ executor.redis                       \* both done
          /\ decisions' = decisions \cup {entry}
          /\ fx' = fx \o <<Effect("zadd", entry.score), Effect("expire", 10)>>
          /\ xpc' = "oms"
          /\ xres' = xres /\ xresult' = xresult
    /\ UNCHANGED <<executor, xsig, pubs, oms>>

OmsOutcomes == {"send_fail", "resp_lost", "success_true", "success_false"}

\* execute lines 127-141 with OmsClient::execute_latest
XOms ==
    /\ xpc = "oms"
    /\ xpc' = "ret"
    /\ IF ~executor.oms_client
       THEN /\ xres' = "err_oms_unconfigured" /\ xresult' = NoResult
            /\ UNCHANGED <<fx, oms>>
       ELSE \E out \in OmsOutcomes :
            LET key == idempotency_key(xsig)
            IN  /\ fx' = Append(fx, Effect("post", key))
                /\ oms' = IF out = "send_fail" THEN oms
                          ELSE oms_receive(oms, key, xsig)
                /\ xres' = CASE out = "success_true"  -> "ok_live"
                             [] out = "success_false" -> "err_oms_fail"
                             [] OTHER                 -> "err_oms_call"
                /\ xresult' = IF out = "success_true"
                              THEN live_execution(xsig, TRUE) ELSE NoResult
    /\ UNCHANGED <<executor, xsig, pubs, decisions>>

----------------------------------------------------------------------------
(* The executor on its own: execute called with any signal, under any      *)
(* environment and any executor construction                                *)

MkEnv(mode, ex, confirm, user, base, token, risk) ==
    [n \in EnvNames |->
        CASE n = "ENGINE_MODE"            -> mode
          [] n = "ENGINE_EXECUTE_SIGNALS" -> ex
          [] n = "ENGINE_LIVE_CONFIRM"    -> confirm
          [] n = "ENGINE_USER_ID"         -> user
          [] n = "ENGINE_OMS_BASE"        -> base
          [] n = "ENGINE_OMS_TOKEN"       -> token
          [] n = "ENGINE_RISK_BASE"       -> risk]

\* the type of the strategy with a given id
TypeOfId(id) == IF id = 1 THEN "Triangular" ELSE "Grid"

HarnessSignals ==
    {Signal(TypeOfId(id), id, "Binance", pm, ts) :
        id \in {1, 2}, pm \in ProfitRates, ts \in 1..MaxStamp}

\* ENGINE_MODE and ENGINE_RISK_BASE are not read by the executor
HarnessEnvs ==
    {MkEnv(Unset, ex, confirm, user, base, token, Unset) :
        ex \in ExecValues, confirm \in ConfirmValues, user \in UserValues,
        base \in {Unset, "http://oms"}, token \in {"", "tok"}}

\* Redis: metrics:engine:signal_count, metrics:engine:blocked_count, the
\* per-strategy-type counters, and the metrics:engine hash
MetricsInit ==
    [signal_count |-> 0, blocked_count |-> 0,
     strategy_signal_count |-> [t \in StrategyTypes |-> 0],
     strategy_blocked_count |-> [t \in StrategyTypes |-> 0],
     last_strategy_type |-> "", last_blocked_strategy_type |-> "",
     last_signal_ts |-> 0]

\* values of the variables the executor does not touch
IdleRest ==
    /\ exchanges = {} /\ registry = <<>>
    /\ running = FALSE
    /\ active = [c \in ExchangeIds |-> FALSE]
    /\ readerPc = [c \in ExchangeIds |-> "none"]
    /\ sent = [c \in ExchangeIds |-> 0]
    /\ subscribed = [c \in ExchangeIds |-> FALSE]
    /\ bq = [c \in ExchangeIds |-> <<>>]
    /\ lag = [c \in ExchangeIds |-> 0]
    /\ fpc = [c \in ExchangeIds |-> "none"]
    /\ fhold = [c \in ExchangeIds |-> <<>>]
    /\ mq = <<>> /\ rxAlive = FALSE
    /\ epc = "off" /\ execute_signals = FALSE
    /\ ticker = <<>> /\ taken = 0
    /\ lastTaken = [c \in ExchangeIds |-> 0]
    /\ sIdx = 0 /\ given = <<>>
    /\ cur = NoSignal /\ pend = {} /\ emitted = 0
    /\ clock = 1
    /\ metrics = MetricsInit

\* no strategy instance is under test
NoStrategy == [ty |-> "none"]
NoTicker == [symbol |-> <<>>]
NoHistory == [n |-> 0]

StratIdle ==
    /\ strat = NoStrategy /\ stick = NoTicker /\ sout = NoSignal
    /\ shist = NoHistory

ExecIdle ==
    /\ xpc = "idle" /\ xsig = NoSignal /\ xres = "none" /\ xresult = NoResult /\ fx = <<>>
    /\ pubs = {} /\ decisions = {} /\ oms = OmsInit

\* OrderExecutor::new followed by set_simulation_mode(sim)
OrderExecutor_new(e, redis, sim) ==
    [simulation_mode |-> sim, redis |-> redis,
     oms_client |-> OmsClient_from_env(e), user_id |-> executor_user_id(e)]

InitExecutor ==
    /\ env \in HarnessEnvs
    /\ cfgExchanges = {} /\ store = <<>>
    /\ mainPc = "harness"
    /\ \E redis \in BOOLEAN, sim \in BOOLEAN :
          executor = OrderExecutor_new(env, redis, sim)
    /\ ExecIdle
    /\ IdleRest
    /\ StratIdle
    /\ calls = 0

\* a caller invokes execute(signal)
HarnessCall ==
    /\ mainPc = "harness"
    /\ xpc \in {"idle", "ret"}
    /\ calls < MaxCalls
    /\ \E sig \in HarnessSignals : xsig' = sig
    /\ xpc' = "entry" /\ xres' = "none" /\ xresult' = NoResult /\ fx' = <<>> /\ pubs' = {}
    /\ calls' = calls + 1
    /\ UNCHANGED <<executor, decisions, oms>>

NextExecutor ==
    \/ HarnessCall /\ UNCHANGED <<mainVars, connVars, fanVars, engVars, stratVars>>
    \/ XEntry /\ UNCHANGED <<mainVars, connVars, fanVars, engVars, calls, stratVars>>
    \/ XPublishSignal /\ UNCHANGED <<mainVars, connVars, fanVars, engVars, calls, stratVars>>
    \/ XPublishDecision /\ UNCHANGED <<mainVars, connVars, fanVars, engVars, calls, stratVars>>
    \/ XOms /\ UNCHANGED <<mainVars, connVars, fanVars, engVars, calls, stratVars>>

----------------------------------------------------------------------------
(* main() *)

StrategyRow(id) == [id |-> id, strategy_type |-> TypeOfId(id)]

\* rows of strategy_configs with is_enabled, ORDER BY priority ASC
StoreRows == {[i \in 1..n |-> StrategyRow(i)] : n \in 0..MaxStrategies}

\* choose_default_exchange: the exchanges it can return (none for an empty
\* map); exchanges.keys().next() is whichever key the HashMap iterates first
choose_default_exchange(exs) ==
    IF "Binance" \in exs THEN {"Binance"}
    ELSE IF "Okx" \in exs THEN {"Okx"}
    ELSE exs

\* Engine::load_enabled_strategies: the registry built from the rows
load_enabled_strategies(rows, exs) ==
    IF rows = <<>>
    THEN IF choose_default_exchange(exs) # {}
         THEN <<[id |-> MaxStrategies + 1, strategy_type |-> "Triangular"]>>
         ELSE <<>>
    ELSE rows

\* main lines 38-49: the live gate
MainGate ==
    /\ mainPc = "start"
    /\ mainPc' = IF main_live_blocked(env) THEN "refused" ELSE "stores"
    /\ UNCHANGED <<env, cfgExchanges, store, exchanges, registry, running>>

\* main lines 51-53: db::create_pool, db::create_redis_client
MainStores ==
    /\ mainPc = "stores"
    /\ \E ok \in BOOLEAN : mainPc' = IF ok THEN "connect" ELSE "failed"
    /\ UNCHANGED <<env, cfgExchanges, store, exchanges, registry, running>>

\* main line 58: exchange::connect_all
MainConnectAll ==
    /\ mainPc = "connect"
    /\ exchanges' = cfgExchanges
    /\ mainPc' = "load"
    /\ UNCHANGED <<env, cfgExchanges, store, registry, running>>

\* main lines 62-66: Engine::new, load_enabled_strategies
MainLoad ==
    /\ mainPc = "load"
    /\ \/ mainPc' = "failed" /\ registry' = registry      \* the query fails
       \/ /\ registry' = load_enabled_strategies(store, exchanges)
          /\ mainPc' = "executor"
    /\ UNCHANGED <<env, cfgExchanges, store, exchanges, running>>

\* main lines 69-70: OrderExecutor::new, set_simulation_mode(mode != "live")
MainExecutor ==
    /\ mainPc = "executor"
    /\ \E redis \in BOOLEAN :
          executor' = OrderExecutor_new(env, redis,
                          Lower(load_config_mode(env)) # "live")
    /\ mainPc' = "run"
    /\ epc' = "start"
    /\ UNCHANGED <<env, cfgExchanges, store, exchanges, registry, running>>

\* main lines 101-110: the select! takes the Ctrl-C branch and drops the run
\* future: its locals (ticker_rx, the ticker, the loop position, the call of
\* execute in flight) are gone, and the record of the signal in flight with them
CtrlC ==
    /\ mainPc = "run"
    /\ epc \notin {"start", "returned"}
    /\ mainPc' = "shutdown"
    /\ epc' = "dropped"
    /\ rxAlive' = FALSE
    /\ execute_signals' = FALSE
    /\ ticker' = <<>> /\ sIdx' = 0 /\ given' = <<>>
    /\ cur' = NoSignal /\ pend' = {}
    /\ xpc' = "idle" /\ xsig' = NoSignal /\ xres' = "none" /\ xresult' = NoResult
    /\ fx' = <<>> /\ pubs' = {}
    /\ UNCHANGED <<env, cfgExchanges, store, exchanges, registry, running>>

\* main lines 101-106: run returned
MainRunReturned ==
    /\ mainPc = "run"
    /\ epc = "returned"
    /\ mainPc' = "shutdown"
    /\ UNCHANGED <<env, cfgExchanges, store, exchanges, registry, running>>

\* Strategy::shutdown of the five implementations (strategy.rs 607-609,
\* 750-752, 861-865, 982-984, 1116-1118).  A registry entry kept as its id
\* and type only has no cache to clear.
Strategy_shutdown(s) ==
    IF "ty" \notin DOMAIN s THEN s
    ELSE CASE s.ty = "Triangular"  -> [s EXCEPT !.prices = <<>>]
           [] s.ty = "Graph"       -> [s EXCEPT !.edges = <<>>]
           [] s.ty = "FundingRate" -> [s EXCEPT !.funding_rates = <<>>,
                                                !.spot_prices = <<>>,
                                                !.perp_prices = <<>>]
           [] s.ty = "Grid"        -> [s EXCEPT !.positions = <<>>]
           [] s.ty = "Pair"        -> [s EXCEPT !.price_history = <<>>]

\* main line 113 with Engine::shutdown: running = false, then shutdown() on
\* every strategy of the registry
MainShutdown ==
    /\ mainPc = "shutdown"
    /\ running' = FALSE
    /\ registry' = [i \in DOMAIN registry |-> Strategy_shutdown(registry[i])]
    /\ mainPc' = "done"
    /\ UNCHANGED <<env, cfgExchanges, store, exchanges>>

----------------------------------------------------------------------------
(* Exchange connectors *)

Ticker(c, n) == <<c, n>>

\* the mutant of broadcast_send: the channel keeps every value
broadcast_send_keep_all(q, t) == Append(q, t)

\* broadcast::Sender::send with at most one receiver: without a receiver
\* the value is dropped; a full channel overwrites its oldest value
broadcast_send(q, t) ==
    IF Len(q) < BroadcastCap THEN Append(q, t) ELSE Append(Tail(q), t)

\* ExchangeConnection::start
ConnStart(c) ==
    /\ c \in exchanges
    /\ readerPc[c] = "none"
    /\ \/ /\ readerPc' = [readerPc EXCEPT ![c] = "start_err"]  \* connect fails
          /\ UNCHANGED active
       \/ /\ active' = [active EXCEPT ![c] = TRUE]        \* subscribe fails
          /\ readerPc' = [readerPc EXCEPT ![c] = "start_err"]
       \/ /\ active' = [active EXCEPT ![c] = TRUE]        \* reader spawned
          /\ readerPc' = [readerPc EXCEPT ![c] = "check"]
    /\ UNCHANGED <<sent, subscribed, bq, lag>>

\* the mutant of ReaderCheck: the reader also runs after a start that
\* returned an error
ReaderCheck_after_error(c) ==
    /\ readerPc[c] \in {"check", "start_err"}
    /\ readerPc' = [readerPc EXCEPT ![c] = IF active[c] THEN "read" ELSE "exited"]
    /\ UNCHANGED <<active, sent, subscribed, bq, lag>>

\* the reader's `while *active.read().await`
ReaderCheck(c) ==
    /\ readerPc[c] = "check"
    /\ readerPc' = [readerPc EXCEPT ![c] = IF active[c] THEN "read" ELSE "exited"]
    /\ UNCHANGED <<active, sent, subscribed, bq, lag>>

\* the mutant of ReaderRead: a read error or the end of the stream clears the
\* active flag of every connector
ReaderRead_stops_all(c) ==
    /\ readerPc[c] = "read"
    /\ \/ /\ sent[c] < MaxTickers
          /\ sent' = [sent EXCEPT ![c] = @ + 1]
          /\ IF subscribed[c]
             THEN /\ bq' = [bq EXCEPT ![c] = broadcast_send(@, Ticker(c, sent[c] + 1))]
                  /\ lag' = [lag EXCEPT ![c] =
                                IF Len(bq[c]) < BroadcastCap THEN @ ELSE @ + 1]
             ELSE UNCHANGED <<bq, lag>>
          /\ readerPc' = [readerPc EXCEPT ![c] = "check"]
          /\ UNCHANGED active
       \/ /\ readerPc' = [readerPc EXCEPT ![c] = "check"]
          /\ UNCHANGED <<sent, bq, lag, active>>
       \/ /\ readerPc' = [readerPc EXCEPT ![c] = "exited"]
          /\ active' = [d \in ExchangeIds |-> FALSE]
          /\ UNCHANGED <<sent, bq, lag>>
    /\ UNCHANGED subscribed

\* the reader's `match read.next().await`
ReaderRead(c) ==
    /\ readerPc[c] = "read"
    /\ \/ /\ sent[c] < MaxTickers              \* a text frame parse_ticker accepts
          /\ sent' = [sent EXCEPT ![c] = @ + 1]
          /\ IF subscribed[c]
             THEN /\ bq' = [bq EXCEPT ![c] = broadcast_send(@, Ticker(c, sent[c] + 1))]
                  /\ lag' = [lag EXCEPT ![c] =
                                IF Len(bq[c]) < BroadcastCap THEN @ ELSE @ + 1]
             ELSE UNCHANGED <<bq, lag>>
          /\ readerPc' = [readerPc EXCEPT ![c] = "check"]
       \/ /\ readerPc' = [readerPc EXCEPT ![c] = "check"]   \* any other frame
          /\ UNCHANGED <<sent, bq, lag>>
       \/ /\ readerPc' = [readerPc EXCEPT ![c] = "exited"]  \* Err or end of stream
          /\ UNCHANGED <<sent, bq, lag>>
    /\ UNCHANGED <<active, subscribed>>

\* ExchangeConnection::stop
ConnStop(c) ==
    /\ c \in exchanges
    /\ active[c]
    /\ active' = [active EXCEPT ![c] = FALSE]
    /\ UNCHANGED <<readerPc, sent, subscribed, bq, lag>>

----------------------------------------------------------------------------
(* Ticker fan-in: one forwarder task per connector (Engine::run 299-322) *)

\* the mutant of mpsc_send: the newest ticker goes to the front
mpsc_send_front(q, t) == <<t>> \o q

\* mpsc::Sender::send of a channel with room
mpsc_send(q, t) == Append(q, t)

\* the mutant of FwdRecv: Lagged(n) ends the forwarder
FwdRecv_lagged_break(c) ==
    /\ fpc[c] = "recv"
    /\ IF lag[c] > 0
       THEN /\ lag' = [lag EXCEPT ![c] = 0]
            /\ fpc' = [fpc EXCEPT ![c] = "exited"]
            /\ UNCHANGED <<bq, fhold>>
       ELSE /\ bq[c] # <<>>
            /\ fhold' = [fhold EXCEPT ![c] = Head(bq[c])]
            /\ bq' = [bq EXCEPT ![c] = Tail(@)]
            /\ fpc' = [fpc EXCEPT ![c] = "send"]
            /\ UNCHANGED lag
    /\ UNCHANGED <<active, readerPc, sent, subscribed, mq, rxAlive>>

\* rx.recv().await: Lagged(n) first, then the oldest retained ticker
FwdRecv(c) ==
    /\ fpc[c] = "recv"
    /\ IF lag[c] > 0
       THEN /\ lag' = [lag EXCEPT ![c] = 0]
            /\ UNCHANGED <<bq, fpc, fhold>>
       ELSE /\ bq[c] # <<>>
            /\ fhold' = [fhold EXCEPT ![c] = Head(bq[c])]
            /\ bq' = [bq EXCEPT ![c] = Tail(@)]
            /\ fpc' = [fpc EXCEPT ![c] = "send"]
            /\ UNCHANGED lag
    /\ UNCHANGED <<active, readerPc, sent, subscribed, mq, rxAlive>>

\* tx.send(ticker).await: waits for room, fails when ticker_rx is gone
FwdSend(c) ==
    /\ fpc[c] = "send"
    /\ IF ~rxAlive
       THEN /\ fpc' = [fpc EXCEPT ![c] = "exited"]
            /\ UNCHANGED mq
       ELSE /\ Len(mq) < MpscCap
            /\ mq' = mpsc_send(mq, fhold[c])
            /\ fpc' = [fpc EXCEPT ![c] = "recv"]
    /\ fhold' = [fhold EXCEPT ![c] = <<>>]
    /\ UNCHANGED <<connVars, rxAlive>>

\* A ticker of connector c goes from its reader through the broadcast
\* channel and the forwarder into the central channel: the forwarder's
\* tx.send(ticker).await completing, with the connector left out
Feed(c) ==
    /\ fpc[c] = "recv"
    /\ rxAlive
    /\ sent[c] < MaxTickers
    /\ Len(mq) < MpscCap
    /\ sent' = [sent EXCEPT ![c] = @ + 1]
    /\ mq' = mpsc_send(mq, Ticker(c, sent[c] + 1))
    /\ UNCHANGED <<mainVars, active, readerPc, subscribed, bq, lag, fpc, fhold,
                   rxAlive, engVars, execVars, calls, stratVars>>

----------------------------------------------------------------------------
(* The risk gate (risk.rs) *)

\* outcomes of GET /api/v1/risk/status
RiskResponses == {"net_fail", "bad_json", "allowed_true", "allowed_false", "no_bool"}

\* the mutant of RiskRemote_check: a body without a boolean forbids trading
RiskRemote_check_closed(resp) ==
    CASE resp \in {"net_fail", "bad_json"} -> "err"
      [] resp = "allowed_true"             -> "true"
      [] OTHER                             -> "false"

\* RiskRemote::check: Err on a failed request or body, else
\* trading_allowed as a boolean, true when it is missing or no boolean
RiskRemote_check(resp) ==
    CASE resp \in {"net_fail", "bad_json"} -> "err"
      [] resp = "allowed_false"            -> "false"
      [] OTHER                             -> "true"

\* RiskManager::check (evaluate_risk): remote says whether RiskRemote::from_env
\* gave a remote; without one no request is made
RiskManager_check(remote, resp) ==
    IF remote
    THEN IF RiskRemote_check(resp) = "err" THEN TRUE
         ELSE RiskRemote_check(resp) = "true"
    ELSE TRUE

----------------------------------------------------------------------------
(* Engine::run *)

\* profit rates of the signals strategies emit here (the loop only logs them)
EmitProfitRates == {40}

\* the for loop over the registry: the position after strategy i
loop_after(i) ==
    IF i < Len(registry) THEN [pc |-> "dispatch", idx |-> i + 1]
    ELSE [pc |-> "recv", idx |-> i + 1]

\* the mutant of after_blocked: `break` in place of `continue`
after_blocked_break(i) == [pc |-> "recv", idx |-> i]

\* the mutant of after_blocked: the `continue` is missing
after_blocked_fallthrough(i) == [pc |-> "publish", idx |-> i]

\* run line 337: `continue` after a blocked signal
after_blocked(i) == loop_after(i)

\* the mutant of after_exec: an executor error leaves the pipeline
after_exec_bail(res) ==
    IF res \in {"ok_sim", "ok_live"} THEN "publish" ELSE "recv"

\* run lines 341-347: an executor error is logged, the pipeline goes on
after_exec(res) == "publish"

\* The Redis commands of one metric recording, in the order of the code: the
\* HSETs of metrics:engine, the INCR of the global counter, the INCR of the
\* per-strategy counter.  Every result is ignored.  The outcomes followed
\* here: no connection (no command takes effect), the connection lost after
\* some commands, all commands done.
MetricWrites == {{}, {"hset"}, {"hset", "count"}, {"hset", "count", "strategy_count"}}

\* Engine::record_signal_metric, the commands in ok taking effect
record_signal_metric(m, sig, ok) ==
    [m EXCEPT !.last_signal_ts = IF "hset" \in ok THEN sig.timestamp ELSE @,
              !.last_strategy_type =
                  IF "hset" \in ok THEN Lower(sig.strategy_type) ELSE @,
              !.signal_count = IF "count" \in ok THEN @ + 1 ELSE @,
              !.strategy_signal_count[sig.strategy_type] =
                  IF "strategy_count" \in ok THEN @ + 1 ELSE @]

\* Engine::record_blocked_metric, the commands in ok taking effect
record_blocked_metric(m, ty, ok) ==
    [m EXCEPT !.last_blocked_strategy_type = IF "hset" \in ok THEN Lower(ty) ELSE @,
              !.blocked_count = IF "count" \in ok THEN @ + 1 ELSE @,
              !.strategy_blocked_count[ty] =
                  IF "strategy_count" \in ok THEN @ + 1 ELSE @]

\* FundingRateStrategy::on_ticker answers None while funding_rates is empty,
\* and nothing calls update_funding_rate; the other strategies may emit
can_emit(ty) == ty # "FundingRate"

\* the mutant of EngineRunStart: no bail on an empty exchange map
EngineRunStart_no_bail ==
    /\ mainPc = "run"
    /\ epc = "start"
    /\ running' = TRUE
    /\ execute_signals' = run_execute_signals(env)
    /\ IF FALSE
       THEN /\ epc' = "returned"
            /\ UNCHANGED <<subscribed, fpc, rxAlive>>
       ELSE /\ epc' = "recv"
            /\ subscribed' = [c \in ExchangeIds |-> c \in exchanges]
            /\ fpc' = [c \in ExchangeIds |-> IF c \in exchanges THEN "recv" ELSE "none"]
            /\ rxAlive' = TRUE
    /\ UNCHANGED <<env, cfgExchanges, store, mainPc, exchanges, registry,
                   active, readerPc, sent, bq, lag, fhold, mq,
                   ticker, taken, lastTaken, sIdx, given, cur, pend, emitted, clock,
                   metrics, execVars, calls, stratVars>>

\* run lines 286-322: running, execute_signals, the bail on no exchange,
\* the central channel and one forwarder per connector
EngineRunStart ==
    /\ mainPc = "run"
    /\ epc = "start"
    /\ running' = TRUE
    /\ execute_signals' = run_execute_signals(env)
    /\ IF exchanges = {}
       THEN /\ epc' = "returned"
            /\ UNCHANGED <<subscribed, fpc, rxAlive>>
       ELSE /\ epc' = "recv"
            /\ subscribed' = [c \in ExchangeIds |-> c \in exchanges]
            /\ fpc' = [c \in ExchangeIds |-> IF c \in exchanges THEN "recv" ELSE "none"]
            /\ rxAlive' = TRUE
    /\ UNCHANGED <<env, cfgExchanges, store, mainPc, exchanges, registry,
                   active, readerPc, sent, bq, lag, fhold, mq,
                   ticker, taken, lastTaken, sIdx, given, cur, pend, emitted, clock,
                   metrics, execVars, calls, stratVars>>

\* run lines 324-329: a ticker leaves the central channel
EngineRecv ==
    /\ epc = "recv"
    /\ mq # <<>>
    /\ ticker' = Head(mq)
    /\ mq' = Tail(mq)
    /\ taken' = taken + 1
    /\ lastTaken' = [lastTaken EXCEPT ![Head(mq)[1]] = Head(mq)[2]]
    /\ given' = <<>>
    /\ sIdx' = 1
    /\ epc' = IF registry = <<>> THEN "recv" ELSE "dispatch"
    /\ UNCHANGED <<mainVars, connVars, fpc, fhold, rxAlive, execute_signals,
                   cur, pend, emitted, clock, metrics, execVars, calls, stratVars>>

\* run line 330: strategy.on_ticker(&ticker) of the strategy at sIdx; a
\* strategy answers None or a signal stamped with the wall clock
EngineOnTicker ==
    /\ epc = "dispatch"
    /\ given' = Append(given, <<sIdx, ticker>>)
    /\ \/ /\ epc' = loop_after(sIdx).pc
          /\ sIdx' = loop_after(sIdx).idx
          /\ UNCHANGED <<cur, pend, emitted, clock>>
       \/ \E pm \in EmitProfitRates, ts \in clock..MaxClock :
            /\ can_emit(registry[sIdx].strategy_type)
            /\ emitted < MaxSignals
            /\ emitted' = emitted + 1
            /\ cur' = [sig |-> Signal(registry[sIdx].strategy_type,
                                      registry[sIdx].id, ticker[1], pm, ts),
                       tick |-> taken, strategy |-> sIdx,
                       risk |-> "pending", allowed |-> TRUE]
            /\ clock' = ts
            /\ pend' = pend \cup {<<taken, sIdx>>}
            /\ epc' = "risk"
            /\ sIdx' = sIdx
    /\ UNCHANGED <<mainVars, connVars, fanVars, execute_signals, ticker, taken,
                   lastTaken, metrics, execVars, calls, stratVars>>

\* run line 334, inside evaluate_risk: the answer of the remote (when there
\* is one) is in hand and the verdict is computed from it
EngineRisk ==
    /\ epc = "risk"
    /\ \E resp \in IF RiskRemote_from_env(env) THEN RiskResponses ELSE {"no_request"} :
         cur' = [cur EXCEPT !.risk = resp,
                            !.allowed = RiskManager_check(RiskRemote_from_env(env), resp)]
    /\ epc' = "checked"
    /\ UNCHANGED <<mainVars, connVars, fanVars, execute_signals, ticker, taken,
                   lastTaken, sIdx, given, pend, emitted, clock, metrics,
                   execVars, calls, stratVars>>

\* run lines 334-341: evaluate_risk returns its boolean (the answer it was
\* computed from is dropped); a blocked signal goes to the blocked metric,
\* an allowed one to the executor when execute_signals, else to the publish
EngineBranch ==
    /\ epc = "checked"
    /\ cur' = [cur EXCEPT !.risk = "returned"]
    /\ IF ~cur.allowed
       THEN /\ epc' = "blocked"
            /\ UNCHANGED <<xpc, xsig, xres, xresult, fx>>
       ELSE IF execute_signals
            THEN /\ epc' = "exec"
                 /\ xpc' = "entry" /\ xsig' = cur.sig
                 /\ xres' = "none" /\ xresult' = NoResult /\ fx' = <<>>
            ELSE /\ epc' = "publish"
                 /\ UNCHANGED <<xpc, xsig, xres, xresult, fx>>
    /\ UNCHANGED <<mainVars, connVars, fanVars, execute_signals, ticker, taken,
                   lastTaken, sIdx, given, pend, emitted, clock, metrics,
                   executor, pubs, decisions, oms, calls, stratVars>>

\* run lines 335-337: record_blocked_metric, continue
EngineBlocked ==
    /\ epc = "blocked"
    /\ \E ok \in MetricWrites :
         metrics' = record_blocked_metric(metrics, cur.sig.strategy_type, ok)
    /\ cur' = NoSignal
    /\ pend' = pend \ {<<cur.tick, cur.strategy>>}
    /\ epc' = after_blocked(sIdx).pc
    /\ sIdx' = after_blocked(sIdx).idx
    /\ UNCHANGED <<mainVars, connVars, fanVars, execute_signals, ticker, taken,
                   lastTaken, given, emitted, clock, execVars, calls, stratVars>>

\* run lines 341-344: execute returned (its frame, with the signal moved into
\* it, is gone); an Err is logged
EngineExecReturn ==
    /\ epc = "exec"
    /\ xpc = "ret"
    /\ xpc' = "idle"
    /\ xsig' = NoSignal /\ fx' = <<>>
    /\ epc' = after_exec(xres)
    /\ IF after_exec(xres) = "recv"
       THEN sIdx' = Len(registry) + 1
       ELSE sIdx' = sIdx
    /\ UNCHANGED <<mainVars, connVars, fanVars, execute_signals, ticker, taken,
                   lastTaken, given, cur, pend, emitted, clock, metrics,
                   executor, xres, xresult, pubs, decisions, oms, calls, stratVars>>

\* run line 347 with Engine::publish_signal: a failed connection or
\* PUBLISH is ignored
EnginePublish ==
    /\ epc = "publish"
    /\ \E ok \in BOOLEAN :
         pubs' = IF ok THEN pubs \cup {engine_channel(env, cur.sig)} ELSE pubs
    /\ epc' = "metric"
    /\ UNCHANGED <<mainVars, connVars, fanVars, execute_signals, ticker, taken,
                   lastTaken, sIdx, given, cur, pend, emitted, clock, metrics,
                   executor, xpc, xsig, xres, xresult, fx, decisions, oms, calls, stratVars>>

\* the mutant of EngineMetric: a recording that fails at the connection ends
\* the run
EngineMetric_fail_stops ==
    /\ epc = "metric"
    /\ \E ok \in MetricWrites :
         /\ metrics' = record_signal_metric(metrics, cur.sig, ok)
         /\ epc' = IF ok = {} THEN "returned" ELSE loop_after(sIdx).pc
    /\ cur' = NoSignal
    /\ pend' = pend \ {<<cur.tick, cur.strategy>>}
    /\ pubs' = {} /\ xres' = "none" /\ xresult' = NoResult
    /\ sIdx' = loop_after(sIdx).idx
    /\ UNCHANGED <<mainVars, connVars, fanVars, execute_signals, ticker, taken,
                   lastTaken, given, emitted, clock, executor, xpc, xsig, fx,
                   decisions, oms, calls, stratVars>>

\* run line 348 with Engine::record_signal_metric, then the next strategy
EngineMetric ==
    /\ epc = "metric"
    /\ \E ok \in MetricWrites :
         metrics' = record_signal_metric(metrics, cur.sig, ok)
    /\ cur' = NoSignal
    /\ pend' = pend \ {<<cur.tick, cur.strategy>>}
    /\ pubs' = {} /\ xres' = "none" /\ xresult' = NoResult
    /\ epc' = loop_after(sIdx).pc
    /\ sIdx' = loop_after(sIdx).idx
    /\ UNCHANGED <<mainVars, connVars, fanVars, execute_signals, ticker, taken,
                   lastTaken, given, emitted, clock, executor, xpc, xsig, fx,
                   decisions, oms, calls, stratVars>>

----------------------------------------------------------------------------
(* The whole program *)

\* the environments of a run.  Simulation mode (ENGINE_MODE unset, no user
\* id): execution off, on, or on in a spelling only Engine::run accepts.
\* Live mode (LIVE, which main lowercases, with a user id): the same with
\* the confirmation right or wrong.  Live mode with both gates right and no
\* user id.  The scenario ENGINE_MODE=live, ENGINE_EXECUTE_SIGNALS=1,
\* ENGINE_LIVE_CONFIRM=WRONG.  Each with and without an OMS base (the risk
\* remote's base too, as ENGINE_RISK_BASE is unset).
ProgramEnvs ==
    {MkEnv(Unset, ex, Unset, Unset, base, "tok", Unset) :
        ex \in {"0", "1", "TRUE"}, base \in {Unset, "http://oms"}}
    \cup
    {MkEnv("LIVE", ex, confirm, "U1", base, "tok", Unset) :
        ex \in {"0", "1", "TRUE"}, confirm \in {"CONFIRM_LIVE", "WRONG"},
        base \in {Unset, "http://oms"}}
    \cup
    {MkEnv("LIVE", "1", "CONFIRM_LIVE", Unset, base, "tok", Unset) :
        base \in {Unset, "http://oms"}}
    \cup
    {MkEnv("live", "1", "WRONG", Unset, base, "tok", Unset) :
        base \in {Unset, "http://oms"}}

InitCommon ==
    /\ mainPc = "start"
    /\ executor = OrderExecutor_new(env, FALSE, TRUE)
    /\ ExecIdle
    /\ IdleRest
    /\ StratIdle
    /\ calls = 0

Init ==
    /\ env \in ProgramEnvs
    /\ cfgExchanges \in {{}, {"Binance"}}
    /\ store \in StoreRows
    /\ InitCommon

restOfMain == <<connVars, fanVars, engVars, execVars, calls, stratVars>>
restOfExec == <<mainVars, connVars, fanVars, engVars, calls, stratVars>>
restOfConn == <<mainVars, fanVars, engVars, execVars, calls, stratVars>>
restOfFan  == <<mainVars, engVars, execVars, calls, stratVars>>

MainStep ==
    \/ MainGate /\ UNCHANGED restOfMain
    \/ MainStores /\ UNCHANGED restOfMain
    \/ MainConnectAll /\ UNCHANGED restOfMain
    \/ MainLoad /\ UNCHANGED restOfMain
    \/ MainExecutor /\ UNCHANGED <<connVars, fanVars, execute_signals, ticker,
                                   taken, lastTaken, sIdx, given, cur, pend,
                                   emitted, clock, metrics, xpc, xsig, xres,
                                   xresult, fx, pubs, decisions, oms, calls, stratVars>>
    \/ CtrlC /\ UNCHANGED <<connVars, fpc, fhold, mq, taken, lastTaken,
                            emitted, clock, metrics, executor, decisions, oms,
                            calls, stratVars>>
    \/ MainRunReturned /\ UNCHANGED restOfMain
    \/ MainShutdown /\ UNCHANGED restOfMain

EngineStep ==
    \/ EngineRunStart
    \/ EngineRecv
    \/ EngineOnTicker
    \/ EngineRisk
    \/ EngineBranch
    \/ EngineBlocked
    \/ EngineExecReturn
    \/ EnginePublish
    \/ EngineMetric
    \/ (epc = "exec" /\ XEntry) /\ UNCHANGED restOfExec
    \/ (epc = "exec" /\ XPublishSignal) /\ UNCHANGED restOfExec
    \/ (epc = "exec" /\ XPublishDecision) /\ UNCHANGED restOfExec
    \/ (epc = "exec" /\ XOms) /\ UNCHANGED restOfExec

\* The program with the connectors and forwarders reduced to their effect on
\* the central channel (Feed)
Next ==
    \/ MainStep
    \/ EngineStep
    \/ \E c \in ExchangeIds : Feed(c)

Spec == Init /\ [][Next]_vars

----------------------------------------------------------------------------
(* The fan-in: connectors, forwarders and the engine loop, with a registry  *)
(* of one funding-rate strategy (which emits nothing)                       *)

InitFanIn ==
    /\ env = MkEnv(Unset, Unset, Unset, Unset, Unset, Unset, Unset)
    /\ cfgExchanges = ExchangeIds
    /\ store = <<[id |-> 1, strategy_type |-> "FundingRate"]>>
    /\ InitCommon

NextFanIn ==
    \/ MainGate /\ UNCHANGED restOfMain
    \/ MainStores /\ UNCHANGED restOfMain
    \/ MainConnectAll /\ UNCHANGED restOfMain
    \/ MainLoad /\ UNCHANGED restOfMain
    \/ MainExecutor /\ UNCHANGED <<connVars, fanVars, execute_signals, ticker,
                                   taken, lastTaken, sIdx, given, cur, pend,
                                   emitted, clock, metrics, xpc, xsig, xres,
                                   xresult, fx, pubs, decisions, oms, calls, stratVars>>
    \/ CtrlC /\ UNCHANGED <<connVars, fpc, fhold, mq, taken, lastTaken,
                            emitted, clock, metrics, executor, decisions, oms,
                            calls, stratVars>>
    \/ MainShutdown /\ UNCHANGED restOfMain
    \/ \E c \in ExchangeIds : ConnStart(c) /\ UNCHANGED restOfConn
    \/ \E c \in ExchangeIds : ReaderCheck(c) /\ UNCHANGED restOfConn
    \/ \E c \in ExchangeIds : ReaderRead(c) /\ UNCHANGED restOfConn
    \/ \E c \in ExchangeIds : ConnStop(c) /\ UNCHANGED restOfConn
    \/ \E c \in ExchangeIds : FwdRecv(c) /\ UNCHANGED restOfFan
    \/ \E c \in ExchangeIds : FwdSend(c) /\ UNCHANGED restOfFan
    \/ EngineRunStart
    \/ EngineRecv
    \/ EngineOnTicker

SpecFanIn == InitFanIn /\ [][NextFanIn]_vars

\* The forwarders and the engine loop are tokio tasks: a task that can run is
\* polled, and a sender waiting for room in the central channel is served
\* when room comes up (the channel's permits are handed out in order).
FanInFairness ==
    /\ \A c \in ExchangeIds : WF_vars(FwdRecv(c) /\ UNCHANGED restOfFan)
    /\ \A c \in ExchangeIds : SF_vars(FwdSend(c) /\ UNCHANGED restOfFan)
    /\ WF_vars(EngineRecv)
    /\ WF_vars(EngineOnTicker)

SpecFanInFair == SpecFanIn /\ FanInFairness

SpecExecutor == InitExecutor /\ [][NextExecutor]_vars

----------------------------------------------------------------------------
(* The strategies (strategy.rs 476-1119), one instance at a time.  Prices,  *)
(* rates and amounts are exact fractions <<numerator, denominator>> with a  *)
(* positive denominator, in lowest terms; f64 rounding is not followed.     *)
(* A symbol is the sequence of the asset names and separators it is written *)
(* with: "BTCUSDT" is <<"BTC", "USDT">>, "BTC-USD" is <<"BTC", "-", "USD">>. *)

Abs(x) == IF x < 0 THEN -x ELSE x

RECURSIVE Gcd(_, _)
Gcd(a, b) == IF b = 0 THEN a ELSE Gcd(b, a % b)

\* the fraction n/d (d # 0) in lowest terms
Rat(n, d) ==
    LET g == Gcd(Abs(n), Abs(d))
    IN  IF d < 0 THEN <<(-n) \div g, (-d) \div g>> ELSE <<n \div g, d \div g>>

Whole(k) == <<k, 1>>
RAdd(a, b) == Rat(a[1] * b[2] + b[1] * a[2], a[2] * b[2])
RSub(a, b) == Rat(a[1] * b[2] - b[1] * a[2], a[2] * b[2])
RMul(a, b) == Rat(a[1] * b[1], a[2] * b[2])
RDiv(a, b) == Rat(a[1] * b[2], a[2] * b[1])
RLt(a, b)  == a[1] * b[2] < b[1] * a[2]
RLe(a, b)  == a[1] * b[2] <= b[1] * a[2]
RAbs(a)    == <<Abs(a[1]), a[2]>>
RMin(a, b) == IF RLt(b, a) THEN b ELSE a
\* f64::floor, as an integer
RFloor(a)  == IF a[1] >= 0 THEN a[1] \div a[2]
              ELSE -((-a[1] + a[2] - 1) \div a[2])

\* HashMap::insert
insert(m, k, v) == [x \in (DOMAIN m) \cup {k} |-> IF x = k THEN v ELSE m[x]]

\* an absent key of StrategyConfig.config (for a list: absent or empty)
Absent == <<>>

BTCUSDT == <<"BTC", "USDT">>
ETHBTC  == <<"ETH", "BTC">>
ETHUSDT == <<"ETH", "USDT">>
BNBBTC  == <<"BNB", "BTC">>
BNBUSDT == <<"BNB", "USDT">>
SOLUSDT == <<"SOL", "USDT">>
XRPUSDT == <<"XRP", "USDT">>

MkTicker(ex, sym, bid, ask, last, ts) ==
    [exchange |-> ex, symbol |-> sym, bid |-> bid, ask |-> ask, last |-> last,
     timestamp |-> ts]

\* a Signal as a strategy builds it
StrategySignal(ty, id, ex, path, expected_profit, profit_rate, confidence, ts) ==
    [strategy_type |-> ty, strategy_id |-> id, exchange |-> ex, path |-> path,
     expected_profit |-> expected_profit, profit_rate |-> profit_rate,
     confidence |-> confidence, timestamp |-> ts]

\* (rate / threshold).min(1.0) for a rate above the threshold; IEEE division
\* by a zero threshold gives +inf (the rate is positive then), whose min with
\* 1.0 is 1.0
confidence_ratio(rate, threshold) ==
    IF threshold[1] = 0 THEN Whole(1)
    ELSE RMin(RDiv(rate, threshold), Whole(1))

----------------------------------------------------------------------------
(* TriangularStrategy *)

\* TriangularStrategy::new, fallback_triangles; "SOLBTC" and "XRPBTC" are
\* written <<"SOL", "BTC">> and <<"XRP", "BTC">>
fallback_triangles ==
    << <<BTCUSDT, ETHBTC, ETHUSDT>>,
       <<BTCUSDT, BNBBTC, BNBUSDT>>,
       <<ETHUSDT, <<"BNB", "ETH">>, BNBUSDT>>,
       <<BTCUSDT, <<"SOL", "BTC">>, SOLUSDT>>,
       <<BTCUSDT, <<"XRP", "BTC">>, XRPUSDT>> >>

\* TriangularStrategy::new: the thresholds default to 0.001, a configured
\* list of triangles that is empty gives way to the fallback
TriangularStrategy_new(config) ==
    [ty |-> "Triangular", config |-> config,
     min_profit_rate |-> IF config.min_profit_rate = Absent THEN <<1, 1000>>
                         ELSE config.min_profit_rate,
     fee_rate |-> IF config.fee_rate = Absent THEN <<1, 1000>>
                  ELSE config.fee_rate,
     triangles |-> IF config.triangles = <<>>
                   THEN fallback_triangles ELSE config.triangles,
     prices |-> <<>>]

\* the mutant of calculate_profit: the third leg sells at the ask
calculate_profit_ask3(s, tri) ==
    IF \E i \in 1..3 : tri[i] \notin DOMAIN s.prices THEN <<"None">>
    ELSE LET ask1 == s.prices[tri[1]][2]
             ask2 == s.prices[tri[2]][2]
             bid3 == s.prices[tri[3]][2]
             keep == RSub(Whole(1), s.fee_rate)
             step1 == RMul(RDiv(Whole(1), ask1), keep)
             step2 == RMul(RDiv(step1, ask2), keep)
             final_amount == RMul(RMul(step2, bid3), keep)
         IN  <<"Some", RSub(final_amount, Whole(1)), final_amount>>

\* TriangularStrategy::calculate_profit
calculate_profit(s, tri) ==
    IF \E i \in 1..3 : tri[i] \notin DOMAIN s.prices THEN <<"None">>
    ELSE LET ask1 == s.prices[tri[1]][2]
             ask2 == s.prices[tri[2]][2]
             bid3 == s.prices[tri[3]][1]
             keep == RSub(Whole(1), s.fee_rate)
             step1 == RMul(RDiv(Whole(1), ask1), keep)
             step2 == RMul(RDiv(step1, ask2), keep)
             final_amount == RMul(RMul(step2, bid3), keep)
         IN  <<"Some", RSub(final_amount, Whole(1)), final_amount>>

\* the for loop of TriangularStrategy::on_ticker from triangle i on: the
\* signal of the first triangle whose profit rate is above the threshold
RECURSIVE triangular_scan(_, _, _, _)
triangular_scan(s, t, now, i) ==
    IF i > Len(s.triangles) THEN NoSignal
    ELSE LET p == calculate_profit(s, s.triangles[i])
         IN  IF p[1] = "Some" /\ RLt(s.min_profit_rate, p[2])
             THEN StrategySignal("Triangular", s.config.id, t.exchange, s.triangles[i],
                                 RMul(p[2], s.config.per_trade_limit), p[2],
                                 confidence_ratio(p[2], s.min_profit_rate), now)
             ELSE triangular_scan(s, t, now, i + 1)

\* TriangularStrategy::on_ticker: the state after it and its answer
Triangular_on_ticker(s, t, now) ==
    LET s1 == [s EXCEPT !.prices = insert(@, t.symbol, <<t.bid, t.ask, t.timestamp>>)]
    IN  [state |-> s1, out |-> triangular_scan(s1, t, now, 1)]

\* the tickers fed to a triangular strategy: scenario S1 (BTCUSDT ask 50000,
\* ETHBTC ask 0.05, ETHUSDT bid 2600), S2 (ETHUSDT bid 2490), and the legs of
\* the second fallback triangle
TriangularTickers ==
    { MkTicker("Binance", BTCUSDT, Whole(49990), Whole(50000), Whole(50000), 1),
      MkTicker("Binance", ETHBTC, <<1, 25>>, <<1, 20>>, <<1, 20>>, 1),
      MkTicker("Binance", ETHUSDT, Whole(2600), Whole(2610), Whole(2600), 1),
      MkTicker("Binance", ETHUSDT, Whole(2490), Whole(2500), Whole(2490), 2),
      MkTicker("Okx", BNBBTC, <<1, 125>>, <<1, 100>>, <<1, 100>>, 1),
      MkTicker("Okx", BNBUSDT, Whole(600), Whole(610), Whole(600), 1) }

TriangularConfigs ==
    {[id |-> 1, strategy_type |-> "Triangular", per_trade_limit |-> Whole(100),
      min_profit_rate |-> m, fee_rate |-> f, triangles |-> tr] :
        m \in {Absent, <<-1, 100>>, Whole(0), <<1, 20>>},
        f \in {Whole(0), <<1, 10>>},
        tr \in {Absent, << <<BTCUSDT, BNBBTC, BNBUSDT>>,
                           <<BTCUSDT, ETHBTC, ETHUSDT>> >>}}

----------------------------------------------------------------------------
(* GridStrategy *)

\* GridStrategy::new: one GridConfig per entry of the key grids, a later
\* entry for a symbol replacing an earlier one; last_trigger starts in the
\* middle
GridConfig(gc) ==
    [upper_price |-> gc.upper_price, lower_price |-> gc.lower_price,
     grid_count |-> gc.grid_count,
     grid_size |-> RDiv(RSub(gc.upper_price, gc.lower_price), Whole(gc.grid_count)),
     last_trigger |-> RDiv(RAdd(gc.upper_price, gc.lower_price), Whole(2))]

GridStrategy_new(config) ==
    LET syms == {config.grids[i].symbol : i \in 1..Len(config.grids)}
        last(sym) == CHOOSE i \in 1..Len(config.grids) :
                        /\ config.grids[i].symbol = sym
                        /\ \A j \in (i + 1)..Len(config.grids) :
                              config.grids[j].symbol # sym
    IN  [ty |-> "Grid", config |-> config,
         grids |-> [sym \in syms |-> GridConfig(config.grids[last(sym)])],
         positions |-> <<>>]

\* the mutant of grid_level: the level is rounded up
grid_level_ceil(g, p) == -RFloor(RDiv(RSub(g.lower_price, p), g.grid_size))

\* ((p - grid.lower_price) / grid.grid_size).floor()
grid_level(g, p) == RFloor(RDiv(RSub(p, g.lower_price), g.grid_size))

\* the mutant of Grid_on_ticker: the range check is missing
Grid_on_ticker_any_price(s, t, now) ==
    IF t.symbol \notin DOMAIN s.grids THEN [state |-> s, out |-> NoSignal]
    ELSE
    LET grid == s.grids[t.symbol]
        price == t.last
        current_grid == grid_level(grid, price)
        last_grid == grid_level(grid, grid.last_trigger)
    IN  IF Abs(current_grid - last_grid) >= 1
        THEN LET direction == IF RLt(price, grid.last_trigger) THEN "buy" ELSE "sell"
                 profit_rate == RDiv(grid.grid_size, price)
             IN  [state |-> [s EXCEPT !.grids[t.symbol].last_trigger = price],
                  out |-> StrategySignal("Grid", s.config.id, t.exchange,
                              <<t.symbol, direction, price>>,
                              RMul(profit_rate, s.config.per_trade_limit), profit_rate,
                              <<4, 5>>, now)]
        ELSE [state |-> s, out |-> NoSignal]

\* GridStrategy::on_ticker: the state after it and its answer
Grid_on_ticker(s, t, now) ==
    IF t.symbol \notin DOMAIN s.grids THEN [state |-> s, out |-> NoSignal]
    ELSE
    LET grid == s.grids[t.symbol]
        price == t.last
        current_grid == grid_level(grid, price)
        last_grid == grid_level(grid, grid.last_trigger)
    IN  IF RLt(price, grid.lower_price) \/ RLt(grid.upper_price, price)
        THEN [state |-> s, out |-> NoSignal]
        ELSE IF Abs(current_grid - last_grid) >= 1
        THEN LET direction == IF RLt(price, grid.last_trigger) THEN "buy" ELSE "sell"
                 profit_rate == RDiv(grid.grid_size, price)
             IN  [state |-> [s EXCEPT !.grids[t.symbol].last_trigger = price],
                  out |-> StrategySignal("Grid", s.config.id, t.exchange,
                              <<t.symbol, direction, price>>,
                              RMul(profit_rate, s.config.per_trade_limit), profit_rate,
                              <<4, 5>>, now)]
        ELSE [state |-> s, out |-> NoSignal]

\* the grids under test: scenario S4 (100 to 200 in 10 steps, last_trigger
\* 150), the same range in 4 steps of 25, and a configuration whose two
\* prices are exchanged (GridStrategy::new takes the numbers as they are)
GridConfigs ==
    {[id |-> 2, strategy_type |-> "Grid", per_trade_limit |-> l,
      grids |-> << [symbol |-> BNBUSDT, upper_price |-> Whole(200),
                    lower_price |-> Whole(100), grid_count |-> c] >>] :
        l \in {Whole(100), <<5, 2>>}, c \in {10, 4}}
    \cup {[id |-> 2, strategy_type |-> "Grid", per_trade_limit |-> Whole(100),
           grids |-> << [symbol |-> BNBUSDT, upper_price |-> Whole(100),
                         lower_price |-> Whole(200), grid_count |-> 4] >>]}

\* prices below the range, on its lower edge, inside it, on its upper edge
\* and above it, and a ticker of a symbol without a grid
GridTickers ==
    {MkTicker("Binance", BNBUSDT, p, p, p, 1) :
        p \in {Whole(90), Whole(100), Whole(141), Whole(150), Whole(165), Whole(200), Whole(250)}}
    \cup {MkTicker("Binance", BTCUSDT, Whole(141), Whole(141), Whole(141), 1)}

----------------------------------------------------------------------------
(* PairStrategy *)

\* PairStrategy::new, pairs; "AVAXUSDT" and "MATICUSDT" are written
\* <<"AVAX", "USDT">> and <<"MATIC", "USDT">>
pairs ==
    << <<BTCUSDT, ETHUSDT>>,
       <<SOLUSDT, <<"AVAX", "USDT">>>>,
       <<BNBUSDT, <<"MATIC", "USDT">>>> >>

PairStrategy_new(config) ==
    [ty |-> "Pair", config |-> config,
     window_size |-> IF config.window_size = Absent THEN 100
                     ELSE config.window_size[1],
     zscore_threshold |-> IF config.zscore_threshold = Absent THEN Whole(2)
                          ELSE config.zscore_threshold,
     price_history |-> <<>>]

RECURSIVE RSum(_)
RSum(seq) == IF seq = <<>> THEN Whole(0) ELSE RAdd(Head(seq), RSum(Tail(seq)))

\* the largest k with k * k <= n, searched upwards from k
RECURSIVE IsqrtFrom(_, _)
IsqrtFrom(n, k) == IF (k + 1) * (k + 1) > n THEN k ELSE IsqrtFrom(n, k + 1)

\* f64::sqrt: exact for the square of a fraction, else cut to thousandths
RSqrt(a) ==
    LET n == IsqrtFrom(a[1], 0)
        d == IsqrtFrom(a[2], 0)
    IN  IF n * n = a[1] /\ d * d = a[2] THEN Rat(n, d)
        ELSE Rat(IsqrtFrom((a[1] * 1000000) \div a[2], 0), 1000)

\* the mutant of calculate_zscore: histories need not be full
calculate_zscore_partial(s, sym1, sym2) ==
    IF sym1 \notin DOMAIN s.price_history \/ sym2 \notin DOMAIN s.price_history
    THEN <<"None">>
    ELSE
    LET hist1 == s.price_history[sym1]
        hist2 == s.price_history[sym2]
        len == IF Len(hist1) < Len(hist2) THEN Len(hist1) ELSE Len(hist2)
        ratios == [i \in 1..len |-> RDiv(hist1[i], hist2[i])]
    IN  IF len = 0 THEN <<"None">>
        ELSE
        LET mean == RDiv(RSum(ratios), Whole(len))
            variance == RDiv(RSum([i \in 1..len |->
                                      RMul(RSub(ratios[i], mean),
                                           RSub(ratios[i], mean))]), Whole(len))
            std_dev == RSqrt(variance)
            current_ratio == RDiv(hist1[Len(hist1)], hist2[Len(hist2)])
        IN  IF std_dev[1] = 0 THEN <<"None">>
            ELSE <<"Some", RDiv(RSub(current_ratio, mean), std_dev)>>

\* PairStrategy::calculate_zscore.  With window_size 0 both histories are
\* empty: mean and std_dev are NaN, for which std_dev == 0.0 is false, and
\* hist1.last()? returns None.
calculate_zscore(s, sym1, sym2) ==
    IF sym1 \notin DOMAIN s.price_history \/ sym2 \notin DOMAIN s.price_history
    THEN <<"None">>
    ELSE
    LET hist1 == s.price_history[sym1]
        hist2 == s.price_history[sym2]
        len == IF Len(hist1) < Len(hist2) THEN Len(hist1) ELSE Len(hist2)
        ratios == [i \in 1..len |-> RDiv(hist1[i], hist2[i])]
    IN  IF Len(hist1) < s.window_size \/ Len(hist2) < s.window_size
        THEN <<"None">>
        ELSE IF len = 0 THEN <<"None">>
        ELSE
        LET mean == RDiv(RSum(ratios), Whole(len))
            variance == RDiv(RSum([i \in 1..len |->
                                      RMul(RSub(ratios[i], mean),
                                           RSub(ratios[i], mean))]), Whole(len))
            std_dev == RSqrt(variance)
            current_ratio == RDiv(hist1[Len(hist1)], hist2[Len(hist2)])
        IN  IF std_dev[1] = 0 THEN <<"None">>
            ELSE <<"Some", RDiv(RSub(current_ratio, mean), std_dev)>>

\* the mutant of history_push: the cap is missing
history_push_unbounded(h, p, window_size) == Append(h, p)

\* on_ticker lines 1073-1077: push, then drop the oldest entry when the
\* history is longer than the window
history_push(h, p, window_size) ==
    IF Len(h) + 1 > window_size THEN Tail(Append(h, p)) ELSE Append(h, p)

\* on_ticker line 1081: the ticker's symbol is a leg of the pair
pair_involves(symbol, pair) == symbol = pair[1] \/ symbol = pair[2]

\* the for loop of PairStrategy::on_ticker from pair i on
RECURSIVE pair_scan(_, _, _, _)
pair_scan(s, t, now, i) ==
    IF i > Len(pairs) THEN NoSignal
    ELSE LET z == IF pair_involves(t.symbol, pairs[i])
                  THEN calculate_zscore(s, pairs[i][1], pairs[i][2])
                  ELSE <<"None">>
         IN  IF z[1] = "Some" /\ RLt(s.zscore_threshold, RAbs(z[2]))
             THEN LET direction == IF z[2][1] > 0 THEN "short_long" ELSE "long_short"
                      profit_rate == RMul(RSub(RAbs(z[2]), s.zscore_threshold),
                                          <<1, 100>>)
                  IN  StrategySignal("Pair", s.config.id, t.exchange,
                          <<pairs[i][1], pairs[i][2], direction>>,
                          RMul(profit_rate, s.config.per_trade_limit), profit_rate,
                          confidence_ratio(RAbs(z[2]),
                                           RMul(s.zscore_threshold, Whole(2))),
                          now)
             ELSE pair_scan(s, t, now, i + 1)

\* PairStrategy::on_ticker: the state after it and its answer
Pair_on_ticker(s, t, now) ==
    LET old == IF t.symbol \in DOMAIN s.price_history
               THEN s.price_history[t.symbol] ELSE <<>>
        s1 == [s EXCEPT !.price_history =
                   insert(@, t.symbol, history_push(old, t.last, s.window_size))]
    IN  [state |-> s1, out |-> pair_scan(s1, t, now, 1)]

\* window_size of the configurations under test
WindowSizes == {0, 1, 2, 3}

PairConfigs ==
    {[id |-> 3, strategy_type |-> "Pair", per_trade_limit |-> Whole(100),
      window_size |-> <<w>>, zscore_threshold |-> z] :
        w \in WindowSizes, z \in {Absent, <<3, 4>>, Whole(0), Whole(-1)}}

\* both legs of the first pair at two prices, one leg of the second pair
\* (whose other leg never arrives) and a symbol of no pair
PairTickers ==
    {MkTicker("Binance", sym, p, p, p, 1) :
        sym \in {BTCUSDT, ETHUSDT}, p \in {Whole(1), Whole(2)}}
    \cup {MkTicker("Binance", SOLUSDT, Whole(1), Whole(1), Whole(1), 1),
          MkTicker("Binance", XRPUSDT, Whole(1), Whole(1), Whole(1), 1)}

----------------------------------------------------------------------------
(* FundingRateStrategy *)

FundingRateStrategy_new(config) ==
    [ty |-> "FundingRate", config |-> config,
     min_apr |-> IF config.min_apr = Absent THEN <<1, 10>> ELSE config.min_apr,
     holding_days |-> IF config.holding_days = Absent THEN Whole(7)
                      ELSE config.holding_days,
     funding_rates |-> <<>>, spot_prices |-> <<>>, perp_prices |-> <<>>]

\* FundingRateStrategy::calculate_apr
calculate_apr(s, symbol) ==
    IF symbol \notin DOMAIN s.funding_rates THEN <<"None">>
    ELSE <<"Some", RMul(RMul(RAbs(s.funding_rates[symbol][1]), Whole(3)), Whole(365))>>

\* FundingRateStrategy::update_funding_rate
update_funding_rate(s, symbol, rate, next_time) ==
    [s EXCEPT !.funding_rates = insert(@, symbol, <<rate, next_time>>)]

\* the mutant of FundingRate_on_ticker: the expected profit is that of a
\* whole year
FundingRate_on_ticker_per_year(s, t, now) ==
    LET s1 == [s EXCEPT !.spot_prices = insert(@, t.symbol, t.last)]
        apr == calculate_apr(s1, t.symbol)
    IN  IF apr[1] = "Some" /\ RLt(s1.min_apr, apr[2])
        THEN LET funding_rate == s1.funding_rates[t.symbol][1]
                 direction == IF funding_rate[1] > 0 THEN "short_perp" ELSE "long_perp"
             IN  [state |-> s1,
                  out |-> StrategySignal("FundingRate", s.config.id, t.exchange,
                              <<t.symbol, direction>>,
                              RMul(apr[2], s1.config.per_trade_limit),
                              apr[2], confidence_ratio(apr[2], s1.min_apr), now)]
        ELSE [state |-> s1, out |-> NoSignal]

\* FundingRateStrategy::on_ticker: the state after it and its answer
FundingRate_on_ticker(s, t, now) ==
    LET s1 == [s EXCEPT !.spot_prices = insert(@, t.symbol, t.last)]
        apr == calculate_apr(s1, t.symbol)
    IN  IF apr[1] = "Some" /\ RLt(s1.min_apr, apr[2])
        THEN LET funding_rate == s1.funding_rates[t.symbol][1]
                 direction == IF funding_rate[1] > 0 THEN "short_perp" ELSE "long_perp"
             IN  [state |-> s1,
                  out |-> StrategySignal("FundingRate", s.config.id, t.exchange,
                              <<t.symbol, direction>>,
                              RMul(RDiv(RMul(apr[2], s1.holding_days), Whole(365)),
                                   s1.config.per_trade_limit),
                              apr[2], confidence_ratio(apr[2], s1.min_apr), now)]
        ELSE [state |-> s1, out |-> NoSignal]

FundingRateConfigs ==
    {[id |-> 4, strategy_type |-> "FundingRate", per_trade_limit |-> Whole(100),
      min_apr |-> a, holding_days |-> h] :
        a \in {Absent, <<-1, 10>>}, h \in {Absent, Whole(365)}}

\* funding rates of 0.1 % either way (an APR of 109.5 %), of 0.001 % (an APR
\* of 1.095 %), and none
FundingRates == {<<1, 1000>>, <<-1, 1000>>, <<1, 100000>>, Whole(0)}

FundingRateTickers ==
    {MkTicker("Binance", BTCUSDT, Whole(49990), Whole(50000), Whole(50000), 1),
     MkTicker("Okx", ETHUSDT, Whole(2600), Whole(2610), Whole(2600), 1)}

----------------------------------------------------------------------------
(* GraphStrategy.  A weight w is kept as the factor exp(-w), and a distance *)
(* d as exp(-d): +inf is 0, d_from + w < d_to reads D_from * m > D_to, and  *)
(* the logarithms and the exponential of the code need not be taken.        *)

\* GraphStrategy::new, nodes
nodes == << <<"USDT">>, <<"BTC">>, <<"ETH">>, <<"BNB">>, <<"SOL">>, <<"XRP">> >>

GraphStrategy_new(config) ==
    [ty |-> "Graph", config |-> config,
     min_profit_rate |-> IF config.min_profit_rate = Absent THEN <<2, 1000>>
                         ELSE config.min_profit_rate,
     fee_rate |-> IF config.fee_rate = Absent THEN <<1, 1000>>
                  ELSE config.fee_rate,
     edges |-> <<>>]

\* GraphStrategy::parse_pair: none of the quotes is a suffix of another, so
\* the order of the tests does not matter
parse_pair(symbol) ==
    IF symbol # <<>> /\ symbol[Len(symbol)] \in {"USDT", "USDC", "BTC", "ETH", "BNB"}
    THEN <<"Some", SubSeq(symbol, 1, Len(symbol) - 1), <<symbol[Len(symbol)]>>>>
    ELSE <<"None">>

NodeSet == {nodes[i] : i \in 1..Len(nodes)}

\* one pass of `for ((from, to), weight) in &self.edges` with the edges in
\* the order ord, from position i on: dist and parent after it
RECURSIVE relax_pass(_, _, _, _)
relax_pass(edges, ord, i, dp) ==
    IF i > Len(ord) THEN dp
    ELSE LET from == ord[i][1]
             to == ord[i][2]
             m == edges[ord[i]]
         IN  IF from \in NodeSet /\ to \in NodeSet
                /\ RLt(dp.dist[to], RMul(dp.dist[from], m))
             THEN relax_pass(edges, ord, i + 1,
                     [dist |-> [dp.dist EXCEPT ![to] = RMul(dp.dist[from], m)],
                      parent |-> insert(dp.parent, to, from)])
             ELSE relax_pass(edges, ord, i + 1, dp)

RECURSIVE relax_rounds(_, _, _, _)
relax_rounds(edges, ord, k, dp) ==
    IF k = 0 THEN dp
    ELSE relax_rounds(edges, ord, k - 1, relax_pass(edges, ord, 1, dp))

\* the mutant of walk_back: the walk stops by the length of the path only
RECURSIVE walk_back_by_length(_, _, _)
walk_back_by_length(parent, path, current) ==
    IF Len(path) >= Len(nodes) + 1
    THEN path
    ELSE walk_back_by_length(parent, Append(path, current),
                   IF current \in DOMAIN parent THEN parent[current] ELSE <<>>)

\* the walk back over parent from the witness edge: while the path does not
\* contain current and is shorter than n + 1
RECURSIVE walk_back(_, _, _)
walk_back(parent, path, current) ==
    IF (\E i \in 1..Len(path) : path[i] = current) \/ Len(path) >= Len(nodes) + 1
    THEN path
    ELSE walk_back(parent, Append(path, current),
                   IF current \in DOMAIN parent THEN parent[current] ELSE <<>>)

Reverse(seq) == [i \in 1..Len(seq) |-> seq[Len(seq) + 1 - i]]

\* the second loop of detect_negative_cycle from position i on: the first
\* edge in the order ord that can still be relaxed
RECURSIVE first_relaxable(_, _, _, _)
first_relaxable(edges, ord, i, dp) ==
    IF i > Len(ord) THEN <<"None">>
    ELSE LET from == ord[i][1]
             to == ord[i][2]
             m == edges[ord[i]]
         IN  IF from \in NodeSet /\ to \in NodeSet
                /\ RLt(dp.dist[to], RMul(dp.dist[from], m))
             THEN <<"Some", Reverse(walk_back(dp.parent, <<to>>, from)),
                    RSub(m, Whole(1))>>
             ELSE first_relaxable(edges, ord, i + 1, dp)

\* the mutant of detect_negative_cycle: the edges are relaxed once, not n times
detect_negative_cycle_one_pass(edges, ord) ==
    LET dp0 == [dist |-> [v \in NodeSet |-> IF v = nodes[1] THEN Whole(1) ELSE Whole(0)],
                parent |-> <<>>]
    IN  first_relaxable(edges, ord, 1, relax_rounds(edges, ord, 1, dp0))

\* GraphStrategy::detect_negative_cycle when the HashMap iterates in the
\* order ord
detect_negative_cycle(edges, ord) ==
    LET dp0 == [dist |-> [v \in NodeSet |-> IF v = nodes[1] THEN Whole(1) ELSE Whole(0)],
                parent |-> <<>>]
    IN  first_relaxable(edges, ord, 1, relax_rounds(edges, ord, Len(nodes), dp0))

\* the orders a HashMap with the keys S may iterate in
RECURSIVE Orders(_)
Orders(S) ==
    IF S = {} THEN {<<>>}
    ELSE UNION {{<<x>> \o o : o \in Orders(S \ {x})} : x \in S}

\* on_ticker lines 715-724: the two edges of a ticker whose symbol parses
graph_edges(s, t) ==
    LET p == parse_pair(t.symbol)
        keep == RSub(Whole(1), s.fee_rate)
    IN  IF p[1] = "None" THEN s.edges
        ELSE insert(insert(s.edges, <<p[3], p[2]>>, RMul(t.ask, keep)),
                    <<p[2], p[3]>>, RDiv(Whole(1), RMul(t.bid, keep)))

\* GraphStrategy::on_ticker when the HashMap iterates in the order ord
Graph_on_ticker(s, t, now, ord) ==
    LET c == detect_negative_cycle(s.edges, ord)
    IN  IF c[1] = "Some" /\ RLt(s.min_profit_rate, c[3])
        THEN StrategySignal("Graph", s.config.id, t.exchange, c[2],
                            RMul(c[3], s.config.per_trade_limit), c[3],
                            confidence_ratio(c[3], s.min_profit_rate), now)
        ELSE NoSignal

GraphConfigs ==
    {[id |-> 5, strategy_type |-> "Graph", per_trade_limit |-> Whole(100),
      min_profit_rate |-> m, fee_rate |-> f, window_size |-> <<w>>] :
        m \in {Absent, <<-1, 100>>}, f \in {Whole(0), <<1, 10>>}, w \in {2}}

\* two symbols between nodes, an OKX symbol whose base ("BTC-") is no node,
\* and a symbol without a known quote
GraphTickers ==
    {MkTicker("Binance", BTCUSDT, Whole(2), Whole(3), Whole(3), 1),
     MkTicker("Binance", BTCUSDT, Whole(1), Whole(1), Whole(1), 2),
     MkTicker("Binance", ETHBTC, <<1, 2>>, Whole(1), Whole(1), 1),
     MkTicker("Okx", <<"BTC", "-", "USDT">>, Whole(2), Whole(3), Whole(3), 1),
     MkTicker("Okx", <<"BTC", "-", "USD">>, Whole(2), Whole(3), Whole(3), 1)}

----------------------------------------------------------------------------
(* One strategy instance, built by create_strategy from a configuration and *)
(* fed tickers by on_ticker as Engine::run does, one call after the other   *)

MaxTriangularTickers == 5   \* on_ticker calls on a triangular strategy
MaxGraphTickers == 2        \* on_ticker calls on a graph strategy
MaxFundingTickers == 2      \* on_ticker calls on a funding-rate strategy
MaxGridTickers == 3         \* on_ticker calls on a grid strategy
MaxPairTickers == 4         \* on_ticker calls on a pair strategy

\* Engine::create_strategy
create_strategy(config) ==
    CASE config.strategy_type = "Triangular"  -> TriangularStrategy_new(config)
      [] config.strategy_type = "Graph"       -> GraphStrategy_new(config)
      [] config.strategy_type = "FundingRate" -> FundingRateStrategy_new(config)
      [] config.strategy_type = "Grid"        -> GridStrategy_new(config)
      [] config.strategy_type = "Pair"        -> PairStrategy_new(config)

StrategyConfigs ==
    TriangularConfigs \cup GraphConfigs \cup FundingRateConfigs
        \cup GridConfigs \cup PairConfigs

\* What an instance has been through: the number of on_ticker calls, the
\* signals it answered, per symbol the last prices it was given in arrival
\* order, and for a grid strategy, over the tickers of a symbol with a grid,
\* the grid lines between last_trigger and the price (lines) and the tickers
\* inside the range with at least one line between the two (crossings), and
\* for a triangular strategy the exchange of the ticker each cached price
\* came from (venue).
History0 == [n |-> 0, signals |-> 0, lines |-> 0, crossings |-> 0, arrived |-> <<>>,
             venue |-> <<>>]

\* the lines lower + k * size (k = 0 .. count) of a grid that lie between the
\* prices a and b: above the lower of the two, up to the higher
lines_between(g, a, b) ==
    LET lo == IF RLt(a, b) THEN a ELSE b
        hi == IF RLt(a, b) THEN b ELSE a
        line(k) == RAdd(g.lower_price, RMul(Whole(k), g.grid_size))
    IN  Cardinality({k \in 0..g.grid_count : RLt(lo, line(k)) /\ RLe(line(k), hi)})

record_call(h, s, t, out) ==
    LET onGrid == s.ty = "Grid" /\ t.symbol \in DOMAIN s.grids
        g == s.grids[t.symbol]
        between == IF onGrid THEN lines_between(g, g.last_trigger, t.last) ELSE 0
        inside == onGrid /\ RLe(g.lower_price, t.last) /\ RLe(t.last, g.upper_price)
        old == IF t.symbol \in DOMAIN h.arrived THEN h.arrived[t.symbol] ELSE <<>>
    IN  [n |-> h.n + 1,
         signals |-> h.signals + (IF out = NoSignal THEN 0 ELSE 1),
         lines |-> h.lines + between,
         crossings |-> h.crossings + (IF inside /\ between >= 1 THEN 1 ELSE 0),
         arrived |-> IF s.ty = "Pair"
                     THEN insert(h.arrived, t.symbol, Append(old, t.last))
                     ELSE h.arrived,
         venue |-> IF s.ty = "Triangular"
                   THEN insert(h.venue, t.symbol, t.exchange)
                   ELSE h.venue]

TriangularOnTicker ==
    /\ strat.ty = "Triangular"
    /\ shist.n < MaxTriangularTickers
    /\ \E t \in TriangularTickers :
         LET r == Triangular_on_ticker(strat, t, clock)
         IN  /\ strat' = r.state /\ sout' = r.out /\ stick' = t
             /\ shist' = record_call(shist, strat, t, r.out)

GraphOnTicker ==
    /\ strat.ty = "Graph"
    /\ shist.n < MaxGraphTickers
    /\ \E t \in GraphTickers :
         LET s1 == [strat EXCEPT !.edges = graph_edges(strat, t)]
         IN  \E ord \in Orders(DOMAIN s1.edges) :
               LET out == Graph_on_ticker(s1, t, clock, ord)
               IN  /\ strat' = s1 /\ sout' = out /\ stick' = t
                   /\ shist' = record_call(shist, strat, t, out)

\* the out-of-band entry point of the funding-rate strategy
UpdateFundingRate ==
    /\ strat.ty = "FundingRate"
    /\ \E sym \in {BTCUSDT}, rate \in FundingRates :
         strat' = update_funding_rate(strat, sym, rate, 0)
    /\ UNCHANGED <<stick, sout, shist>>

FundingRateOnTicker ==
    /\ strat.ty = "FundingRate"
    /\ shist.n < MaxFundingTickers
    /\ \E t \in FundingRateTickers :
         LET r == FundingRate_on_ticker(strat, t, clock)
         IN  /\ strat' = r.state /\ sout' = r.out /\ stick' = t
             /\ shist' = record_call(shist, strat, t, r.out)

GridOnTicker ==
    /\ strat.ty = "Grid"
    /\ shist.n < MaxGridTickers
    /\ \E t \in GridTickers :
         LET r == Grid_on_ticker(strat, t, clock)
         IN  /\ strat' = r.state /\ sout' = r.out /\ stick' = t
             /\ shist' = record_call(shist, strat, t, r.out)

PairOnTicker ==
    /\ strat.ty = "Pair"
    /\ shist.n < MaxPairTickers
    /\ \E t \in PairTickers :
         LET r == Pair_on_ticker(strat, t, clock)
         IN  /\ strat' = r.state /\ sout' = r.out /\ stick' = t
             /\ shist' = record_call(shist, strat, t, r.out)

InitStrategies ==
    /\ env = MkEnv(Unset, Unset, Unset, Unset, Unset, Unset, Unset)
    /\ cfgExchanges = {} /\ store = <<>>
    /\ mainPc = "strategies"
    /\ executor = OrderExecutor_new(env, FALSE, TRUE)
    /\ ExecIdle
    /\ IdleRest
    /\ calls = 0
    /\ \E config \in StrategyConfigs : strat = create_strategy(config)
    /\ stick = NoTicker /\ sout = NoSignal /\ shist = History0

restOfStrategy == <<mainVars, connVars, fanVars, engVars, execVars, calls>>

NextStrategies ==
    \/ TriangularOnTicker /\ UNCHANGED restOfStrategy
    \/ GraphOnTicker /\ UNCHANGED restOfStrategy
    \/ UpdateFundingRate /\ UNCHANGED restOfStrategy
    \/ FundingRateOnTicker /\ UNCHANGED restOfStrategy
    \/ GridOnTicker /\ UNCHANGED restOfStrategy
    \/ PairOnTicker /\ UNCHANGED restOfStrategy

SpecStrategies == InitStrategies /\ [][NextStrategies]_vars

----------------------------------------------------------------------------
(* The registry under Engine::run and Engine::shutdown: the engine reaches  *)
(* a strategy through the Strategy trait only (on_ticker, shutdown).  The   *)
(* pipeline of an emitted signal (risk gate, executor, publication, metric) *)
(* does not touch the registry and is left out here.                        *)

MaxLoopTickers == 2     \* tickers the loop takes from the central channel

\* Strategy::on_ticker of the instance s; ord is the iteration order of the
\* edges, which only a graph strategy uses
on_ticker(s, t, now, ord) ==
    CASE s.ty = "Triangular"  -> Triangular_on_ticker(s, t, now)
      [] s.ty = "Graph"       ->
            LET s1 == [s EXCEPT !.edges = graph_edges(s, t)]
            IN  [state |-> s1, out |-> Graph_on_ticker(s1, t, now, ord)]
      [] s.ty = "FundingRate" -> FundingRate_on_ticker(s, t, now)
      [] s.ty = "Grid"        -> Grid_on_ticker(s, t, now)
      [] s.ty = "Pair"        -> Pair_on_ticker(s, t, now)

\* the iteration orders on_ticker may meet
on_ticker_orders(s, t) ==
    IF s.ty = "Graph" THEN Orders(DOMAIN graph_edges(s, t)) ELSE {<<>>}

LoopConfig(ty) ==
    CHOOSE c \in StrategyConfigs :
        /\ c.strategy_type = ty
        /\ ty = "Pair" => (c.window_size = <<1>> /\ c.zscore_threshold = Whole(0))
        /\ ty = "Grid" => (Len(c.grids) = 1 /\ c.grids[1].grid_count = 10
                             /\ c.per_trade_limit = Whole(100))
        /\ ty \in {"Triangular", "Graph"} =>
               (c.min_profit_rate = <<-1, 100>> /\ c.fee_rate = Whole(0))
        /\ ty = "Triangular" => c.triangles = Absent
        /\ ty = "FundingRate" => (c.min_apr = <<-1, 10>> /\ c.holding_days = Absent)

\* the registries of the runs followed here: rows of the five types
LoopRegistries ==
    {[i \in 1..Len(tys) |-> create_strategy(LoopConfig(tys[i]))] :
        tys \in {<<"FundingRate">>, <<"Grid", "FundingRate">>,
                 <<"Triangular", "Pair">>, <<"Graph", "Grid">>,
                 <<"FundingRate", "Pair">>, <<"Pair", "Triangular">>}}

LoopTickers ==
    {MkTicker("Binance", BTCUSDT, Whole(1), Whole(2), Whole(1), 1),
     MkTicker("Binance", ETHUSDT, Whole(2), Whole(2), Whole(2), 1),
     MkTicker("Binance", BNBUSDT, Whole(141), Whole(141), Whole(141), 1)}

\* run lines 324-329: ticker_rx.recv() yields a ticker
LoopRecv ==
    /\ mainPc = "run"
    /\ epc = "recv"
    /\ taken < MaxLoopTickers
    /\ \E t \in LoopTickers : ticker' = t
    /\ taken' = taken + 1
    /\ given' = <<>>
    /\ sIdx' = 1
    /\ epc' = IF registry = <<>> THEN "recv" ELSE "dispatch"
    /\ UNCHANGED <<mainVars, connVars, fanVars, execute_signals,
                   lastTaken, cur, pend, emitted, clock, metrics,
                   execVars, calls, stratVars>>

\* the mutant of LoopOnTicker: the engine hands the strategy a funding rate
\* for the ticker's symbol before the ticker
LoopOnTicker_fed_rates ==
    /\ mainPc = "run"
    /\ epc = "dispatch"
    /\ \E ord \in on_ticker_orders(registry[sIdx], ticker) :
         LET s0 == IF registry[sIdx].ty = "FundingRate"
                   THEN update_funding_rate(registry[sIdx], ticker.symbol,
                                            <<1, 1000>>, 0)
                   ELSE registry[sIdx]
             r == on_ticker(s0, ticker, clock, ord)
         IN  /\ registry' = [registry EXCEPT ![sIdx] = r.state]
             /\ sout' = r.out
             /\ strat' = r.state
             /\ emitted' = emitted + (IF r.out = NoSignal THEN 0 ELSE 1)
    /\ stick' = ticker
    /\ given' = Append(given, <<sIdx, ticker>>)
    /\ shist' = [shist EXCEPT !.n = @ + 1]
    /\ epc' = loop_after(sIdx).pc
    /\ sIdx' = loop_after(sIdx).idx
    /\ UNCHANGED <<env, cfgExchanges, store, mainPc, exchanges, running,
                   connVars, fanVars, execute_signals, ticker, taken,
                   lastTaken, cur, pend, clock, metrics, execVars, calls>>

\* run line 330: strategy.on_ticker(&ticker) of the strategy at sIdx; strat,
\* stick and sout keep the instance after the call, the ticker and the answer
LoopOnTicker ==
    /\ mainPc = "run"
    /\ epc = "dispatch"
    /\ \E ord \in on_ticker_orders(registry[sIdx], ticker) :
         LET r == on_ticker(registry[sIdx], ticker, clock, ord)
         IN  /\ registry' = [registry EXCEPT ![sIdx] = r.state]
             /\ sout' = r.out
             /\ strat' = r.state
             /\ emitted' = emitted + (IF r.out = NoSignal THEN 0 ELSE 1)
    /\ stick' = ticker
    /\ given' = Append(given, <<sIdx, ticker>>)
    /\ shist' = [shist EXCEPT !.n = @ + 1]
    /\ epc' = loop_after(sIdx).pc
    /\ sIdx' = loop_after(sIdx).idx
    /\ UNCHANGED <<env, cfgExchanges, store, mainPc, exchanges, running,
                   connVars, fanVars, execute_signals, ticker, taken,
                   lastTaken, cur, pend, clock, metrics, execVars, calls>>

InitLifecycle ==
    /\ env = MkEnv(Unset, Unset, Unset, Unset, Unset, Unset, Unset)
    /\ cfgExchanges = {"Binance"} /\ store = <<>>
    /\ mainPc = "run"
    /\ exchanges = {"Binance"}
    /\ registry \in LoopRegistries
    /\ running = TRUE
    /\ active = [c \in ExchangeIds |-> FALSE]
    /\ readerPc = [c \in ExchangeIds |-> "none"]
    /\ sent = [c \in ExchangeIds |-> 0]
    /\ subscribed = [c \in ExchangeIds |-> c \in exchanges]
    /\ bq = [c \in ExchangeIds |-> <<>>]
    /\ lag = [c \in ExchangeIds |-> 0]
    /\ fpc = [c \in ExchangeIds |-> IF c \in exchanges THEN "recv" ELSE "none"]
    /\ fhold = [c \in ExchangeIds |-> <<>>]
    /\ mq = <<>> /\ rxAlive = TRUE
    /\ epc = "recv" /\ execute_signals = FALSE
    /\ ticker = <<>> /\ taken = 0
    /\ lastTaken = [c \in ExchangeIds |-> 0]
    /\ sIdx = 0 /\ given = <<>>
    /\ cur = NoSignal /\ pend = {} /\ emitted = 0
    /\ clock = 1
    /\ metrics = MetricsInit
    /\ executor = OrderExecutor_new(env, FALSE, TRUE)
    /\ ExecIdle
    /\ calls = 0
    /\ strat = NoStrategy /\ stick = NoTicker /\ sout = NoSignal
    /\ shist = NoHistory

NextLifecycle ==
    \/ LoopRecv
    \/ LoopOnTicker
    \/ CtrlC /\ UNCHANGED <<connVars, fpc, fhold, mq, taken, lastTaken,
                            emitted, clock, metrics, executor, decisions, oms,
                            calls, stratVars>>
    \/ MainShutdown /\ UNCHANGED restOfMain

SpecLifecycle == InitLifecycle /\ [][NextLifecycle]_vars

----------------------------------------------------------------------------
(* detect_negative_cycle on its own: a graph strategy whose edges are any   *)
(* weighted edge set over the first nodes, scanned in any order              *)

MaxEdges == 3       \* edges of a graph given to detect_negative_cycle

\* the nodes the edge sets are drawn over: the source and two more
DetectNodes == {nodes[1], nodes[2], nodes[3]}

\* weights ln 2, 0 and -ln 2, kept as the factors exp(-w)
DetectFactors == {<<1, 2>>, Whole(1), Whole(2)}

\* the edge maps: up to MaxEdges directed edges between different nodes
EdgeMaps ==
    LET pairsOf == {e \in DetectNodes \X DetectNodes : e[1] # e[2]}
        keys == {K \in SUBSET pairsOf : Cardinality(K) <= MaxEdges}
    IN  UNION {[K -> DetectFactors] : K \in keys}

\* the nodes that can be reached from the nodes in R over the edges
RECURSIVE ReachableFrom(_, _)
ReachableFrom(edges, R) ==
    LET more == R \cup {e[2] : e \in {d \in DOMAIN edges : d[1] \in R}}
    IN  IF more = R THEN R ELSE ReachableFrom(edges, more)

\* the product of the factors along a sequence of edges
RECURSIVE FactorProduct(_, _)
FactorProduct(edges, es) ==
    IF es = <<>> THEN Whole(1)
    ELSE RMul(edges[Head(es)], FactorProduct(edges, Tail(es)))

\* the directed cycles of the edge map: sequences of different nodes with an
\* edge from each to the next and from the last to the first, as the
\* sequence of their edges
DirectedCycles(edges) ==
    LET ns == {e[1] : e \in DOMAIN edges} \cup {e[2] : e \in DOMAIN edges}
        seqs == UNION {[1..k -> ns] : k \in 1..Cardinality(ns)}
        next(c, i) == IF i = Len(c) THEN c[1] ELSE c[i + 1]
    IN  {[i \in 1..Len(c) |-> <<c[i], next(c, i)>>] :
            c \in {q \in seqs :
                      /\ \A i, j \in 1..Len(q) : i # j => q[i] # q[j]
                      /\ \A i \in 1..Len(q) : <<q[i], next(q, i)>> \in DOMAIN edges}}

\* a cycle of negative total weight (a product of factors above 1) with a
\* node the source reaches
NegativeCycleReachable(edges) ==
    \E c \in DirectedCycles(edges) :
        /\ RLt(Whole(1), FactorProduct(edges, c))
        /\ c[1][1] \in ReachableFrom(edges, {nodes[1]})

\* self.detect_negative_cycle() with the HashMap iterating in some order
DetectCycle ==
    /\ mainPc = "detect"
    /\ strat.ty = "Graph"
    /\ shist.n = 0
    /\ \E ord \in Orders(DOMAIN strat.edges) :
         shist' = [n |-> 1, order |-> ord,
                   cycle |-> detect_negative_cycle(strat.edges, ord)]
    /\ UNCHANGED <<strat, stick, sout>>

InitDetect ==
    /\ env = MkEnv(Unset, Unset, Unset, Unset, Unset, Unset, Unset)
    /\ cfgExchanges = {} /\ store = <<>>
    /\ mainPc = "detect"
    /\ executor = OrderExecutor_new(env, FALSE, TRUE)
    /\ ExecIdle
    /\ IdleRest
    /\ calls = 0
    /\ \E config \in GraphConfigs, edges \in EdgeMaps :
          strat = [GraphStrategy_new(config) EXCEPT !.edges = edges]
    /\ stick = NoTicker /\ sout = NoSignal /\ shist = NoHistory

NextDetect == DetectCycle /\ UNCHANGED restOfStrategy

SpecDetect == InitDetect /\ [][NextDetect]_vars

----------------------------------------------------------------------------
(* load_enabled_strategies on its own *)

\* the variants of ExchangeId
AllExchangeIds == {"Binance", "Okx", "Bybit", "Gate", "Bitget", "Mexc"}

\* load_enabled_strategies line 119: get_top_base_symbols(exchange_id, 3)
TopBaseLimit == 3

BaseAssets == {"BTC", "ETH", "SOL"}

\* what get_top_base_symbols can return: up to TopBaseLimit distinct bases,
\* none when the store has no ticker of the exchange
TopBases ==
    {b \in UNION {[1..k -> BaseAssets] : k \in 0..TopBaseLimit} :
        \A i, j \in 1..Len(b) : i # j => b[i] # b[j]}

\* build_triangles lines 452-456: the separator of the exchange's symbols
triangle_sep(exchange_id) == IF exchange_id = "Okx" THEN <<"-">> ELSE <<>>

\* the triangle build_triangles pushes for the bases a and b
triangle_of(exchange_id, a, b) ==
    LET sep == triangle_sep(exchange_id)
    IN  << <<a>> \o sep \o <<"USDT">>, <<b>> \o sep \o <<a>>,
           <<b>> \o sep \o <<"USDT">> >>

\* the index pairs (i, j) of a list of k bases in the order of the two loops
base_pairs(k) == [n \in 1..(k * k) |-> <<((n - 1) \div k) + 1, ((n - 1) % k) + 1>>]

\* build_triangles: for a in bases, for b in bases, a # b
build_triangles(exchange_id, bases) ==
    LET kept == SelectSeq(base_pairs(Len(bases)),
                          LAMBDA p : bases[p[1]] # bases[p[2]])
    IN  [i \in 1..Len(kept) |->
            triangle_of(exchange_id, bases[kept[i][1]], bases[kept[i][2]])]

\* load_enabled_strategies lines 120-121
selected_bases(bases) == IF bases = <<>> THEN <<"BTC", "ETH", "BNB">> ELSE bases

\* load_enabled_strategies lines 129-152: the default StrategyConfig
default_config(exchange_id, bases) ==
    [id |-> MaxStrategies + 1, strategy_type |-> "Triangular", priority |-> 1,
     per_trade_limit |-> Whole(100),
     min_profit_rate |-> Absent, fee_rate |-> Absent,
     triangles |-> build_triangles(exchange_id, selected_bases(bases)),
     bases |-> selected_bases(bases),
     exchange_id |-> Lower(exchange_id), default |-> TRUE]

\* the mutant of load_strategies: the default strategy is added after the rows
load_strategies_with_default(rows, exchange, bases) ==
    [i \in 1..Len(rows) |-> create_strategy(rows[i])]
        \o (IF exchange = {} THEN <<>>
            ELSE << create_strategy(default_config(CHOOSE e \in exchange : TRUE, bases)) >>)

\* load_enabled_strategies lines 115-183 with the instances it creates:
\* exchange is what choose_default_exchange returned (a set of at most one),
\* bases what get_top_base_symbols returned
load_strategies(rows, exchange, bases) ==
    IF rows = <<>>
    THEN IF exchange = {} THEN <<>>
         ELSE << create_strategy(default_config(CHOOSE e \in exchange : TRUE, bases)) >>
    ELSE [i \in 1..Len(rows) |-> create_strategy(rows[i])]

\* the rows the query can yield: enabled configurations in ascending priority
LoadStores ==
    LET withPriority(c, i, p) == ("id" :> i) @@ ("priority" :> p) @@ c
    IN  {[i \in 1..Len(tys) |-> withPriority(LoopConfig(tys[i]), i, ps[i])] :
            <<tys, ps>> \in
                {tp \in UNION {[1..n -> StrategyTypes] \X [1..n -> 1..MaxStrategies] :
                                  n \in 0..MaxStrategies} :
                    \A i \in 1..(Len(tp[2]) - 1) : tp[2][i] <= tp[2][i + 1]}}

\* load_enabled_strategies: the query, then the registry
LoadStrategies ==
    /\ mainPc = "load"
    /\ \/ /\ mainPc' = "failed"                    \* line 113: the query fails
          /\ registry' = registry
          /\ shist' = [n |-> 1, query |-> "err", exchange |-> {}, bases |-> <<>>]
       \/ \E exchange \in {{e} : e \in choose_default_exchange(exchanges)}
                              \cup (IF exchanges = {} THEN {{}} ELSE {}),
             bases \in TopBases :
             /\ registry' = load_strategies(store, exchange, bases)
             /\ mainPc' = "loaded"
             /\ shist' = IF store = <<>>
                         THEN [n |-> 1, query |-> "ok", exchange |-> exchange,
                               bases |-> IF exchange = {} THEN <<>> ELSE bases]
                         ELSE [n |-> 1, query |-> "ok", exchange |-> {},
                               bases |-> <<>>]
    /\ UNCHANGED <<env, cfgExchanges, store, exchanges, running, strat, stick, sout>>

InitLoad ==
    /\ env = MkEnv(Unset, Unset, Unset, Unset, Unset, Unset, Unset)
    /\ cfgExchanges \in SUBSET AllExchangeIds
    /\ exchanges = cfgExchanges
    /\ store \in LoadStores
    /\ mainPc = "load"
    /\ registry = <<>>
    /\ running = FALSE
    /\ active = [c \in ExchangeIds |-> FALSE]
    /\ readerPc = [c \in ExchangeIds |-> "none"]
    /\ sent = [c \in ExchangeIds |-> 0]
    /\ subscribed = [c \in ExchangeIds |-> FALSE]
    /\ bq = [c \in ExchangeIds |-> <<>>]
    /\ lag = [c \in ExchangeIds |-> 0]
    /\ fpc = [c \in ExchangeIds |-> "none"]
    /\ fhold = [c \in ExchangeIds |-> <<>>]
    /\ mq = <<>> /\ rxAlive = FALSE
    /\ epc = "off" /\ execute_signals = FALSE
    /\ ticker = <<>> /\ taken = 0
    /\ lastTaken = [c \in ExchangeIds |-> 0]
    /\ sIdx = 0 /\ given = <<>>
    /\ cur = NoSignal /\ pend = {} /\ emitted = 0
    /\ clock = 1
    /\ metrics = MetricsInit
    /\ executor = OrderExecutor_new(env, FALSE, TRUE)
    /\ ExecIdle
    /\ calls = 0
    /\ strat = NoStrategy /\ stick = NoTicker /\ sout = NoSignal
    /\ shist = NoHistory

NextLoad ==
    LoadStrategies /\ UNCHANGED <<connVars, fanVars, engVars, execVars, calls>>

SpecLoad == InitLoad /\ [][NextLoad]_vars

----------------------------------------------------------------------------
(* build_decision_payload on its own: symbol and rawOpportunity.symbols     *)
(* A path is a string, kept as the sequence of its pieces: the name parts   *)
(* of the symbols, " ", ",", "-", ">" and the arrow U+2192.                *)

MaxLegs == 3    \* legs of a path handed to build_decision_payload

Arrow == "U+2192"

\* format!("{} → {} → {}", ..) and path.join(" → ") of the strategies
StrategySep == <<" ", Arrow, " ">>

\* the separators between the legs of the paths the model tries
PathSeps == {StrategySep, <<"-", ">">>, <<" ", "-", ">", " ">>, <<",", "-", ">">>}

PathLegs == {BTCUSDT, ETHBTC, <<"ETH", "-", "USDT">>}

\* the legs joined by the separator
RECURSIVE join_legs(_, _)
join_legs(legs, sep) ==
    IF legs = <<>> THEN <<>>
    ELSE IF Len(legs) = 1 THEN legs[1]
    ELSE legs[1] \o sep \o join_legs(Tail(legs), sep)

\* str::split("->"): the pieces between the occurrences of '-' '>'
RECURSIVE split_ascii_arrow(_, _)
split_ascii_arrow(str, part) ==
    IF str = <<>> THEN <<part>>
    ELSE IF Len(str) >= 2 /\ str[1] = "-" /\ str[2] = ">"
    THEN <<part>> \o split_ascii_arrow(SubSeq(str, 3, Len(str)), <<>>)
    ELSE split_ascii_arrow(Tail(str), Append(part, str[1]))

\* str::trim / str::trim_matches: the pieces of the set taken off both ends
RECURSIVE trim_set(_, _)
trim_set(str, set) ==
    IF str = <<>> THEN str
    ELSE IF str[1] \in set THEN trim_set(Tail(str), set)
    ELSE IF str[Len(str)] \in set THEN trim_set(SubSeq(str, 1, Len(str) - 1), set)
    ELSE str

\* parse_symbols_from_path
parse_symbols_from_path(path) ==
    LET parts == split_ascii_arrow(path, <<>>)
        trimmed == [i \in 1..Len(parts) |-> trim_set(trim_set(parts[i], {" "}), {","})]
        out == SelectSeq(trimmed, LAMBDA x : x # <<>>)
    IN  IF path = <<>> THEN <<>>
        ELSE IF out = <<>> THEN <<path>> ELSE out

\* build_decision_payload lines 249-250 and 264-265: symbol and
\* rawOpportunity of the payload
payload_symbols(path) ==
    LET symbols == parse_symbols_from_path(path)
    IN  [symbol |-> IF symbols = <<>> THEN <<>> ELSE symbols[1],
         rawOpportunity |-> [path |-> path, symbols |-> symbols]]

\* the signals handed over: the legs of the path, how they are joined, and
\* the path itself
PayloadInputs ==
    {[legs |-> legs, sep |-> sep, path |-> join_legs(legs, sep)] :
        legs \in UNION {[1..k -> PathLegs] : k \in 0..MaxLegs}, sep \in PathSeps}

\* OrderExecutor::build_decision_payload
BuildPayload ==
    /\ mainPc = "payload"
    /\ shist.n = 0
    /\ shist' = [n |-> 1, payload |-> payload_symbols(sout.path)]
    /\ UNCHANGED <<strat, stick, sout>>

InitPayload ==
    /\ env = MkEnv(Unset, Unset, Unset, Unset, Unset, Unset, Unset)
    /\ cfgExchanges = {} /\ store = <<>>
    /\ mainPc = "payload"
    /\ executor = OrderExecutor_new(env, FALSE, FALSE)
    /\ ExecIdle
    /\ IdleRest
    /\ calls = 0
    /\ strat = NoStrategy /\ stick = NoTicker
    /\ sout \in PayloadInputs
    /\ shist = NoHistory

NextPayload == BuildPayload /\ UNCHANGED restOfStrategy

SpecPayload == InitPayload /\ [][NextPayload]_vars

----------------------------------------------------------------------------
(* One connection used by a caller of its own: start, stop and start again *)

\* ExchangeConnection::start called on a connection that was started
\* before: after a successful connect the same flag is set again
\* (exchange.rs 79-83); the reader this call spawns is a task of its own and
\* is not followed, readerPc and sent stay those of the first reader
ConnStartAgain(c) ==
    /\ c \in exchanges
    /\ readerPc[c] # "none"
    /\ \/ UNCHANGED <<active, shist>>                   \* connect fails
       \/ /\ active' = [active EXCEPT ![c] = TRUE]
          /\ shist' = [shist EXCEPT !.again[c] = TRUE]
    /\ UNCHANGED <<readerPc, sent, subscribed, bq, lag>>

\* what the caller of a connection has done to it and seen of it, per
\* connection: stop() has returned (stopped), the tickers the first reader
\* has broadcast since the last stop() returned (late), start() has
\* connected a second time (again)
RestartHistory0 ==
    [stopped |-> [c \in ExchangeIds |-> FALSE],
     late |-> [c \in ExchangeIds |-> 0],
     again |-> [c \in ExchangeIds |-> FALSE]]

\* the connections exist and nothing else runs; a connection may or may not
\* have a broadcast receiver (ExchangeConnection::subscribe_tickers)
InitRestart ==
    /\ env = MkEnv(Unset, Unset, Unset, Unset, Unset, Unset, Unset)
    /\ cfgExchanges = {} /\ store = <<>>
    /\ mainPc = "connections"
    /\ executor = OrderExecutor_new(env, FALSE, FALSE)
    /\ ExecIdle
    /\ exchanges \in (SUBSET ExchangeIds) \ {{}}
    /\ registry = <<>> /\ running = FALSE
    /\ active = [c \in ExchangeIds |-> FALSE]
    /\ readerPc = [c \in ExchangeIds |-> "none"]
    /\ sent = [c \in ExchangeIds |-> 0]
    /\ subscribed \in [ExchangeIds -> BOOLEAN]
    /\ bq = [c \in ExchangeIds |-> <<>>]
    /\ lag = [c \in ExchangeIds |-> 0]
    /\ fpc = [c \in ExchangeIds |-> "none"]
    /\ fhold = [c \in ExchangeIds |-> <<>>]
    /\ mq = <<>> /\ rxAlive = FALSE
    /\ epc = "off" /\ execute_signals = FALSE
    /\ ticker = <<>> /\ taken = 0
    /\ lastTaken = [c \in ExchangeIds |-> 0]
    /\ sIdx = 0 /\ given = <<>>
    /\ cur = NoSignal /\ pend = {} /\ emitted = 0
    /\ clock = 1
    /\ metrics = MetricsInit
    /\ strat = NoStrategy /\ stick = NoTicker /\ sout = NoSignal
    /\ shist = RestartHistory0
    /\ calls = 0

restOfRestart == <<mainVars, fanVars, engVars, execVars, calls, strat, stick, sout>>

NextRestart ==
    \/ \E c \in ExchangeIds : ConnStart(c) /\ UNCHANGED restOfConn
    \/ \E c \in ExchangeIds : ReaderCheck(c) /\ UNCHANGED restOfConn
    \/ \E c \in ExchangeIds :
          /\ ReaderRead(c)
          /\ shist' = [shist EXCEPT !.late[c] =
                          IF shist.stopped[c] /\ sent'[c] > sent[c] THEN @ + 1 ELSE @]
          /\ UNCHANGED restOfRestart
    \/ \E c \in ExchangeIds :
          /\ ConnStop(c)
          /\ shist' = [shist EXCEPT !.stopped[c] = TRUE, !.late[c] = 0]
          /\ UNCHANGED restOfRestart
    \/ \E c \in ExchangeIds : ConnStartAgain(c) /\ UNCHANGED restOfRestart

SpecRestart == InitRestart /\ [][NextRestart]_vars

----------------------------------------------------------------------------
(* The reader task frame by frame: parse_ticker and the reader's match *)

MaxFrames == 2      \* frames the stream of one connection delivers

\* serde_json values: a string is a token sequence with the number it
\* spells (<<>> when it spells none)
JStr(tokens) == [t |-> "str", s |-> tokens, n |-> <<>>]
JNum(r) == [t |-> "str", s |-> <<"number">>, n |-> r]
JInt(k) == [t |-> "int", i |-> k]
JArr(items) == [t |-> "arr", items |-> items]
JObj(fields) == [t |-> "obj", fields |-> fields]
JNone == [t |-> "none"]
NotJson == [t |-> "invalid"]

\* Value::get(key): None unless the value is an object with that key
json_get(j, k) ==
    IF j.t = "obj" THEN (IF k \in DOMAIN j.fields THEN j.fields[k] ELSE JNone)
    ELSE JNone

\* .as_str()?.parse::<f64>().ok()? succeeds
is_f64_str(v) == v.t = "str" /\ v.n # <<>>

\* .as_str()?.parse::<i64>().ok()? succeeds
is_i64_str(v) == v.t = "str" /\ v.n # <<>> /\ v.n[2] = 1

ParseNone == [exchange |-> "none"]

\* ExchangeConnection::parse_ticker (volume is read and checked like the
\* prices; the model's Ticker has no volume field)
parse_ticker(exchange, msg) ==
    LET json == msg.json
    IN  IF json.t = "invalid" THEN ParseNone
        ELSE IF exchange = "Binance"
        THEN LET e == json_get(json, "e")
                 sy == json_get(json, "s")
                 b == json_get(json, "b")
                 a == json_get(json, "a")
                 c == json_get(json, "c")
                 v == json_get(json, "v")
                 ts == json_get(json, "E")
             IN  IF e.t # "str" THEN ParseNone
                 ELSE IF e.s # <<"24hrTicker">> THEN ParseNone
                 ELSE IF sy.t = "str" /\ is_f64_str(b) /\ is_f64_str(a)
                         /\ is_f64_str(c) /\ is_f64_str(v) /\ ts.t = "int"
                 THEN MkTicker(exchange, sy.s, b.n, a.n, c.n, ts.i)
                 ELSE ParseNone
        ELSE IF exchange = "Okx"
        THEN LET arr == json_get(json, "data")
                 data == IF arr.t = "arr" /\ arr.items # <<>> THEN arr.items[1] ELSE JNone
                 sy == json_get(data, "instId")
                 b == json_get(data, "bidPx")
                 a == json_get(data, "askPx")
                 c == json_get(data, "last")
                 v == json_get(data, "vol24h")
                 ts == json_get(data, "ts")
             IN  IF sy.t = "str" /\ is_f64_str(b) /\ is_f64_str(a)
                    /\ is_f64_str(c) /\ is_f64_str(v) /\ is_i64_str(ts)
                 THEN MkTicker(exchange, sy.s, b.n, a.n, c.n, ts.n[1])
                 ELSE ParseNone
        ELSE ParseNone

\* the mutant of reader_match: a text frame that is no ticker ends the reader
reader_match_strict(exchange, f) ==
    IF f.kind = "Text"
    THEN [next |-> IF parse_ticker(exchange, f) = ParseNone THEN "exited" ELSE "check",
          ticker |-> parse_ticker(exchange, f)]
    ELSE IF f.kind \in {"Err", "End"}
    THEN [next |-> "exited", ticker |-> ParseNone]
    ELSE [next |-> "check", ticker |-> ParseNone]

\* the arms of the reader's match on read.next().await: where the task goes
\* and the ticker it passes to ticker_tx.send, if any
reader_match(exchange, f) ==
    IF f.kind = "Text"
    THEN [next |-> "check", ticker |-> parse_ticker(exchange, f)]
    ELSE IF f.kind \in {"Err", "End"}
    THEN [next |-> "exited", ticker |-> ParseNone]
    ELSE [next |-> "check", ticker |-> ParseNone]

TextFrame(json) == [kind |-> "Text", json |-> json]

BinanceFields ==
    "e" :> JStr(<<"24hrTicker">>) @@ "s" :> JStr(BTCUSDT) @@ "b" :> JNum(Whole(100))
    @@ "a" :> JNum(Whole(101)) @@ "c" :> JNum(Whole(100)) @@ "v" :> JNum(Whole(5))
    @@ "E" :> JInt(7)

OkxFields ==
    "instId" :> JStr(<<"BTC", "-", "USDT">>) @@ "bidPx" :> JNum(Whole(100))
    @@ "askPx" :> JNum(Whole(101)) @@ "last" :> JNum(Whole(100))
    @@ "vol24h" :> JNum(Whole(5)) @@ "ts" :> JNum(Whole(7))

BinanceTickerFrame == TextFrame(JObj(BinanceFields))
OkxTickerFrame == TextFrame(JObj("arg" :> JStr(<<"tickers">>)
                                 @@ "data" :> JArr(<<JObj(OkxFields)>>)))

\* text frames that are no ticker of either exchange: no JSON, another
\* event, a price that is no number, a missing field, a subscribe answer,
\* an empty data array, a timestamp that is no integer
OtherTextFrames ==
    {TextFrame(NotJson),
     TextFrame(JObj([BinanceFields EXCEPT !["e"] = JStr(<<"trade">>)])),
     TextFrame(JObj([BinanceFields EXCEPT !["b"] = JStr(<<"abc">>)])),
     TextFrame(JObj([k \in DOMAIN BinanceFields \ {"E"} |-> BinanceFields[k]])),
     TextFrame(JObj("event" :> JStr(<<"subscribe">>))),
     TextFrame(JObj("data" :> JArr(<<>>))),
     TextFrame(JObj("data" :> JArr(<<JObj([OkxFields EXCEPT !["ts"] = JNum(<<3, 2>>)])>>)))}

OtherFrames == {[kind |-> k] : k \in {"Ping", "Pong", "Binary", "Close"}}

Frames ==
    {BinanceTickerFrame, OkxTickerFrame} \cup OtherTextFrames \cup OtherFrames
    \cup {[kind |-> "Err"], [kind |-> "End"]}

RECURSIVE FrameSeqs(_)
FrameSeqs(k) ==
    IF k = 0 THEN {<<>>}
    ELSE {<<f>> \o fs : f \in Frames, fs \in FrameSeqs(k - 1)}

\* one turn of the reader on the next frame of the stream (exchange.rs
\* 97-112); shist holds the frames still to come and the frames read
ReaderReadFrame(c) ==
    /\ readerPc[c] = "read"
    /\ shist.frames # <<>>
    /\ LET f == Head(shist.frames)
           r == reader_match(c, f)
       IN  /\ IF r.ticker # ParseNone
              THEN /\ sent' = [sent EXCEPT ![c] = @ + 1]
                   /\ IF subscribed[c]
                      THEN /\ bq' = [bq EXCEPT ![c] = broadcast_send(@, r.ticker)]
                           /\ lag' = [lag EXCEPT ![c] =
                                         IF Len(bq[c]) < BroadcastCap THEN @ ELSE @ + 1]
                      ELSE UNCHANGED <<bq, lag>>
              ELSE UNCHANGED <<sent, bq, lag>>
           /\ readerPc' = [readerPc EXCEPT ![c] = r.next]
           /\ shist' = [n |-> shist.n + 1, frames |-> Tail(shist.frames),
                        seen |-> Append(shist.seen, f)]
    /\ UNCHANGED <<active, subscribed, strat, stick, sout>>

InitFrames ==
    /\ env = MkEnv(Unset, Unset, Unset, Unset, Unset, Unset, Unset)
    /\ cfgExchanges = {} /\ store = <<>>
    /\ mainPc = "connections"
    /\ executor = OrderExecutor_new(env, FALSE, FALSE)
    /\ ExecIdle
    /\ \E c \in ExchangeIds : exchanges = {c}
    /\ registry = <<>> /\ running = FALSE
    /\ active = [c \in ExchangeIds |-> FALSE]
    /\ readerPc = [c \in ExchangeIds |-> "none"]
    /\ sent = [c \in ExchangeIds |-> 0]
    /\ \E b \in BOOLEAN : subscribed = [c \in ExchangeIds |-> b]
    /\ bq = [c \in ExchangeIds |-> <<>>]
    /\ lag = [c \in ExchangeIds |-> 0]
    /\ fpc = [c \in ExchangeIds |-> "none"]
    /\ fhold = [c \in ExchangeIds |-> <<>>]
    /\ mq = <<>> /\ rxAlive = FALSE
    /\ epc = "off" /\ execute_signals = FALSE
    /\ ticker = <<>> /\ taken = 0
    /\ lastTaken = [c \in ExchangeIds |-> 0]
    /\ sIdx = 0 /\ given = <<>>
    /\ cur = NoSignal /\ pend = {} /\ emitted = 0
    /\ clock = 1
    /\ metrics = MetricsInit
    /\ strat = NoStrategy /\ stick = NoTicker /\ sout = NoSignal
    /\ \E fs \in FrameSeqs(MaxFrames) : shist = [n |-> 0, frames |-> fs, seen |-> <<>>]
    /\ calls = 0

NextFrames ==
    \/ \E c \in ExchangeIds : ConnStart(c) /\ UNCHANGED <<restOfConn>>
    \/ \E c \in ExchangeIds : ReaderCheck(c) /\ UNCHANGED <<restOfConn>>
    \/ \E c \in ExchangeIds :
          ReaderReadFrame(c)
          /\ UNCHANGED <<mainVars, fanVars, engVars, execVars, calls>>

SpecFrames == InitFrames /\ [][NextFrames]_vars

----------------------------------------------------------------------------
(* Properties *)

\* the two gates of live execution, as the environment spells them
GatesHold ==
    /\ env["ENGINE_EXECUTE_SIGNALS"] \in {"1", "true", "True"}
    /\ env["ENGINE_LIVE_CONFIRM"] = "CONFIRM_LIVE"

\* C1: execute of an executor that is not in simulation mode, called while
\* the two gates do not both hold, returns the gate error and has had no
\* effect: no publication, no write to decisions:latest, no OMS request.
\* An OMS POST is only ever sent while both gates hold.
C1_LiveGateBeforeEffects ==
    /\ (~executor.simulation_mode /\ ~GatesHold) =>
          /\ fx = <<>> /\ pubs = {} /\ decisions = {} /\ oms = OmsInit
          /\ xpc = "ret" => xres = "err_gate"
          /\ xpc \in {"idle", "entry", "ret"}
    /\ \A i \in 1..Len(fx) : fx[i].op = "post" => GatesHold
    /\ oms.seen # {} => GatesHold

\* C1, reached: a live executor with Redis, a user id and an OMS client was
\* called with EXECUTE_SIGNALS=TRUE (not one of the accepted spellings) and
\* returned the gate error
C1_Witness ==
    /\ xpc = "ret" /\ xres = "err_gate"
    /\ ~executor.simulation_mode
    /\ executor.redis /\ executor.oms_client /\ executor.user_id # Unset
    /\ env["ENGINE_EXECUTE_SIGNALS"] = "TRUE"
    /\ env["ENGINE_LIVE_CONFIRM"] = "CONFIRM_LIVE"

\* C10: the idempotency key of a POST is engine:<strategy_id>:<timestamp> of
\* the signal executed, the same for signals that differ in nothing but
\* other fields, and the OMS (which executes a key at most once) executes
\* a signal at most once however often it is handed over.
C10_OneExecutionPerSignal ==
    /\ \A i \in 1..Len(fx) :
          fx[i].op = "post" =>
              fx[i].what = <<"engine", xsig.strategy_id, xsig.timestamp>>
    /\ \A s1, s2 \in HarnessSignals :
          (s1.strategy_id = s2.strategy_id /\ s1.timestamp = s2.timestamp)
              => idempotency_key(s1) = idempotency_key(s2)
    /\ \A i \in SigIdents : oms.execs[i] <= 1

\* C10, reached: the OMS got two requests for one signal and executed it once
C10_Witness ==
    \E i \in SigIdents : oms.reqs[i] = 2 /\ oms.execs[i] = 1

\* C9: in live mode with both gates on, the decision built from the signal
\* is in decisions:latest, scored by its riskScore, before the OMS POST for
\* the signal is sent; when the decision write fails, execute returns an
\* error and sends no POST.
C9_DecisionBeforePost ==
    LET payload == build_decision_payload(xsig)
    IN  /\ \A i \in 1..Len(fx) :
              fx[i].op = "post" =>
                  /\ \E j \in 1..(i - 1) :
                        fx[j].op = "zadd" /\ fx[j].what = payload.riskScore
                  /\ [payload |-> payload, score |-> payload.riskScore] \in decisions
        /\ xres = "err_decision" => \A i \in 1..Len(fx) : fx[i].op # "post"

\* C2: with ENGINE_MODE live (in any letter case) and a gate missing, main
\* returns its error before the stores, the connectors, the registry and
\* the engine loop: nothing is connected or loaded, the loop never starts,
\* no ticker is taken and no signal emitted.
C2_LiveModeRefusesStart ==
    (env["ENGINE_MODE"] \in {"live", "LIVE"} /\ ~GatesHold) =>
        /\ mainPc \in {"start", "refused"}
        /\ exchanges = {} /\ registry = <<>>
        /\ ~running /\ epc = "off" /\ ~rxAlive
        /\ taken = 0 /\ emitted = 0 /\ given = <<>>
        /\ xpc = "idle" /\ pubs = {} /\ decisions = {} /\ oms = OmsInit
        /\ metrics = MetricsInit

\* C2, reached: ENGINE_MODE=live, ENGINE_EXECUTE_SIGNALS=1,
\* ENGINE_LIVE_CONFIRM=WRONG, and main has returned the error
C2_Witness ==
    /\ mainPc = "refused"
    /\ env["ENGINE_MODE"] = "live"
    /\ env["ENGINE_EXECUTE_SIGNALS"] = "1"
    /\ env["ENGINE_LIVE_CONFIRM"] = "WRONG"

\* C4: the risk gate answers false only when a remote is configured, the
\* request succeeded and the body carries trading_allowed = false; with no
\* remote, a failed request, an unreadable body or a body without a boolean
\* trading_allowed it answers true.
C4_RiskGateFailsOpen ==
    /\ epc = "checked" =>
          (~cur.allowed <=> (RiskRemote_from_env(env) /\ cur.risk = "allowed_false"))
    /\ epc = "blocked" => RiskRemote_from_env(env)
    /\ \A resp \in RiskResponses \cup {"no_request"} :
          RiskManager_check(FALSE, resp)

\* C4, reached: a remote is configured, its request failed, and the signal
\* is allowed
C4_Witness ==
    /\ epc = "checked"
    /\ RiskRemote_from_env(env)
    /\ cur.risk = "net_fail"
    /\ cur.allowed

\* the engine's step for a blocked signal (not a step of another task, nor
\* the run being dropped)
BlockedStep == epc = "blocked" /\ epc' \notin {"blocked", "dropped"}

\* what C3 says of a signal the risk gate answered false for,
\* apart from the blocked counters: it is at neither the executor, the
\* publish nor the signal metric; the step that handles it leaves the
\* executor, the channels, decisions:latest, the OMS and the signal
\* metrics alone and moves to the next strategy of the same ticker
BlockedNeverDispatched ==
    /\ epc \in {"exec", "publish", "metric"} => cur.allowed
    /\ epc = "blocked" =>
          /\ ~cur.allowed
          /\ xpc = "idle" /\ pubs = {}
    /\ BlockedStep =>
          /\ UNCHANGED <<xpc, pubs, fx, decisions, oms>>
          /\ metrics'.signal_count = metrics.signal_count
          /\ metrics'.strategy_signal_count = metrics.strategy_signal_count
          /\ metrics'.last_signal_ts = metrics.last_signal_ts
          /\ metrics'.last_strategy_type = metrics.last_strategy_type
          /\ UNCHANGED <<ticker, taken>>
          /\ sIdx' = sIdx + 1
          /\ epc' = IF sIdx < Len(registry) THEN "dispatch" ELSE "recv"

\* C3 as amended: a signal the risk gate answers false for never reaches
\* the executor, a signal channel or the signal metrics; each blocked
\* counter (the global one and the one of the signal's strategy type) is
\* incremented at most once for it, the counters of the other types not at
\* all; and the engine goes on to the next strategy for the same ticker.
C3_BlockedCountedAtMostOnce ==
    [][ /\ BlockedNeverDispatched
        /\ BlockedStep =>
              LET ty == cur.sig.strategy_type
              IN  /\ metrics'.blocked_count \in
                        {metrics.blocked_count, metrics.blocked_count + 1}
                  /\ metrics'.strategy_blocked_count[ty] \in
                        {metrics.strategy_blocked_count[ty],
                         metrics.strategy_blocked_count[ty] + 1}
                  /\ \A t \in StrategyTypes \ {ty} :
                        metrics'.strategy_blocked_count[t] =
                            metrics.strategy_blocked_count[t]
      ]_vars

\* C3 as stated: the same, with the blocked counters incremented once
C3_BlockedCountedOnce ==
    [][ /\ BlockedNeverDispatched
        /\ BlockedStep =>
              LET ty == cur.sig.strategy_type
              IN  /\ metrics'.blocked_count = metrics.blocked_count + 1
                  /\ metrics'.strategy_blocked_count =
                        [metrics.strategy_blocked_count EXCEPT ![ty] = @ + 1]
      ]_vars

\* C3, reached: the first strategy's signal was blocked and counted once in
\* both counters, nothing was published or counted as a signal, and the
\* loop is at the second strategy with the same ticker
C3_Witness ==
    /\ epc = "dispatch" /\ sIdx = 2 /\ taken = 1
    /\ metrics.blocked_count = 1
    /\ metrics.strategy_blocked_count[registry[1].strategy_type] = 1
    /\ metrics.signal_count = 0
    /\ pubs = {} /\ cur = NoSignal

\* C5: the ticker the loop has taken is passed to on_ticker of the
\* strategies in registry order, each once: the calls made so far are the
\* strategies 1..k with that ticker, k is the loop position, and when the
\* loop is back at the channel (after a ticker) all of the registry has been
\* called, whatever the strategies emitted, the risk gate answered or the
\* executor returned.
C5_EveryStrategyOnceInOrder ==
    /\ \A i \in 1..Len(given) : given[i] = <<i, ticker>>
    /\ Len(given) <= Len(registry)
    /\ epc = "dispatch" => (sIdx = Len(given) + 1 /\ sIdx <= Len(registry))
    /\ epc \in {"risk", "checked", "blocked", "exec", "publish", "metric"} =>
          sIdx = Len(given)
    /\ (epc = "recv" /\ taken > 0) =>
          (Len(given) = Len(registry) /\ sIdx = Len(registry) + 1)
    /\ (epc \notin {"off", "start", "returned", "dropped"} /\ taken > 0) =>
          lastTaken[ticker[1]] = ticker[2]

\* C5, reached: of a registry of two, the first strategy's signal was
\* blocked, the second strategy's signal met an executor error, and both
\* were given the ticker
C5_Witness ==
    /\ Len(registry) = 2 /\ taken = 1
    /\ given = <<<<1, ticker>>, <<2, ticker>>>>
    /\ metrics.strategy_blocked_count[registry[1].strategy_type] = 1
    /\ epc = "publish" /\ xres = "err_oms_fail"

\* C7: the loop handles one thing at a time.  on_ticker is called only
\* while no signal is in the pipeline and the executor is idle; a signal in
\* the pipeline is the one of the strategy and ticker at hand; and the next
\* ticker is taken only when no signal is unfinished, so every signal of
\* ticker k is through risk check, executor, publish and metric before a
\* strategy sees ticker k+1.
C7_StrictlySerial ==
    /\ Cardinality(pend) <= 1
    /\ \A p \in pend : p = <<taken, sIdx>> /\ cur.tick = taken /\ cur.strategy = sIdx
    /\ epc \in {"recv", "dispatch"} => (pend = {} /\ cur = NoSignal /\ xpc = "idle")
    /\ epc \in {"risk", "checked", "blocked", "exec", "publish", "metric"} =>
          pend = {<<taken, sIdx>>}
    /\ xpc # "idle" => epc = "exec"

\* C7, reached: the first strategy is about to get the second ticker, after
\* a signal of the first ticker went through the executor (which wrote the
\* decision and failed at the OMS), the publish and the metric
C7_Witness ==
    /\ epc = "dispatch" /\ taken = 2 /\ sIdx = 1
    /\ emitted = 1 /\ metrics.signal_count = 1
    /\ decisions # {} /\ oms.seen = {}

\* C8: for a risk-allowed signal the publication on its signal channel
\* (signal:<USER_ID>:<type>, or signal:<type> without ENGINE_USER_ID) comes
\* before the OMS hand-off: when the OMS call has failed or answered
\* success=false, the signal is already published on that channel.
C8_PublishedBeforeOmsResult ==
    (epc = "exec" /\ xpc = "ret" /\ xres \in {"err_oms_call", "err_oms_fail"}) =>
        IF env["ENGINE_USER_ID"] \in {Unset, ""}
        THEN <<"signal", Lower(xsig.strategy_type)>> \in pubs
        ELSE <<"signal", env["ENGINE_USER_ID"], Lower(xsig.strategy_type)>> \in pubs

\* C6: per-source FIFO.  Ticker(c, n) is the n-th ticker connector c
\* broadcast.  Every ticker the loop takes has a higher number than every
\* ticker of the same connector it took before, under every interleaving of
\* the readers, the forwarders and the loop.
C6_PerSourceFifo ==
    [][ /\ \A c \in ExchangeIds : lastTaken'[c] >= lastTaken[c]
        /\ taken' = taken + 1 =>
              /\ ticker'[2] > lastTaken[ticker'[1]]
              /\ ticker'[2] <= sent[ticker'[1]]
              /\ lastTaken' = [lastTaken EXCEPT ![ticker'[1]] = ticker'[2]]
      ]_vars

\* C6, reached: the loop took both tickers of Binance and, between or around
\* them, one of Okx
C6_Witness ==
    /\ taken = 3
    /\ lastTaken["Binance"] = 2
    /\ lastTaken["Okx"] = 1

\* C11: in simulation mode execute returns Ok with a successful result of
\* exactly one order, Filled, total fee 0.1 and net profit the signal's
\* expected profit less 0.1, and nothing outside has changed: no
\* publication, no write to decisions:latest, no OMS request - with the
\* gates on or off.
C11_SimulationFabricates ==
    executor.simulation_mode =>
        /\ fx = <<>> /\ pubs = {} /\ decisions = {} /\ oms = OmsInit
        /\ xpc \in {"idle", "entry", "ret"}
        /\ xpc = "ret" =>
              /\ xres = "ok_sim"
              /\ xresult.success
              /\ xresult.signal = xsig
              /\ Len(xresult.orders) = 1
              /\ xresult.orders[1].status = "Filled"
              /\ xresult.total_fee = 100
              /\ xresult.net_profit = xsig.expected_profit - 100

\* C11, reached: the second simulated execution of an executor that has a
\* Redis client, a user id and an OMS client, with both gates on, returned
\* for a signal that expects a loss
C11_Witness ==
    /\ executor.simulation_mode /\ xpc = "ret" /\ calls = 2
    /\ live_enabled(env)
    /\ executor.redis /\ executor.oms_client /\ executor.user_id # Unset
    /\ xsig.expected_profit < 0
    /\ xresult.net_profit = xsig.expected_profit - 100

\* C14: the riskScore of the decision payload is in [10, 1000]: 1000 for a
\* profit rate of at most 0, 10 for one of at least 0.99, (1 - rate) * 1000
\* in between; it is the score the decision is stored under.
C14_RiskScoreRange ==
    LET expected(pm) == IF pm <= 0 THEN 1000
                        ELSE IF pm >= 990 THEN 10
                        ELSE 1000 - pm
    IN  /\ xsig # NoSignal =>
              LET score == build_decision_payload(xsig).riskScore
              IN  /\ 10 <= score /\ score <= 1000
                  /\ score = expected(xsig.profit_rate)
                  /\ \A i \in 1..Len(fx) : fx[i].op = "zadd" => fx[i].what = score
        /\ \A d \in decisions :
              /\ 10 <= d.score /\ d.score <= 1000
              /\ d.score = expected(d.payload.expectedProfitRate)

\* C14, reached: decisions:latest holds a decision of a losing signal under
\* score 1000 and one of a signal with profit rate 0.995 under score 10
C14_Witness ==
    /\ \E d \in decisions : d.payload.expectedProfitRate < 0 /\ d.score = 1000
    /\ \E d \in decisions : d.payload.expectedProfitRate = 995 /\ d.score = 10

\* a * b = c for fractions, by cross-multiplication
TimesIs(a, b, c) == a[1] * b[1] * c[2] = c[1] * a[2] * b[2]

C13_ConfidenceInUnitInterval ==
    sout # NoSignal =>
        /\ RLe(Whole(0), sout.confidence)
        /\ RLe(sout.confidence, Whole(1))

\* the profit rate of the claim for a triangle whose legs are cached:
\* bid3 * (1 - f)^3 / (ask1 * ask2) - 1
TriangleRate(tri) ==
    LET ask1 == strat.prices[tri[1]][2]
        ask2 == strat.prices[tri[2]][2]
        bid3 == strat.prices[tri[3]][1]
        keep == RSub(Whole(1), strat.fee_rate)
    IN  RSub(RDiv(RMul(bid3, RMul(keep, RMul(keep, keep))), RMul(ask1, ask2)),
             Whole(1))

\* triangle i of the configuration has its three legs cached and a profit
\* rate above min_profit_rate
TriangleHit(i) ==
    /\ \A k \in 1..3 : strat.triangles[i][k] \in DOMAIN strat.prices
    /\ RLt(strat.min_profit_rate, TriangleRate(strat.triangles[i]))

\* C15: after on_ticker of a triangular strategy the ticker's (bid, ask,
\* timestamp) is cached under its symbol, and the call answered a signal if
\* and only if some configured triangle has its three legs cached and
\* ((1/ask1)(1-f)/ask2)(1-f) * bid3 * (1-f) - 1 above min_profit_rate; the
\* signal is that of the first such triangle in configuration order, and a
\* call answers at most one signal.  With the prices of scenario S1 cached
\* (fee 0, default threshold) the answer is a signal of profit rate 0.04;
\* with those of S2, and no other triangle complete, there is none.
C15_TriangularEmitsFirstHit ==
    (strat.ty = "Triangular" /\ shist.n > 0) =>
        LET hits == {i \in 1..Len(strat.triangles) : TriangleHit(i)}
            first == CHOOSE i \in hits : \A j \in hits : i <= j
            s1 == /\ strat.fee_rate = Whole(0)
                  /\ strat.min_profit_rate = <<1, 1000>>
                  /\ strat.triangles = fallback_triangles
                  /\ {BTCUSDT, ETHBTC, ETHUSDT} \subseteq DOMAIN strat.prices
                  /\ strat.prices[BTCUSDT][2] = Whole(50000)
                  /\ strat.prices[ETHBTC][2] = <<1, 20>>
        IN  /\ strat.prices[stick.symbol] = <<stick.bid, stick.ask, stick.timestamp>>
            /\ (sout # NoSignal) <=> (hits # {})
            /\ sout # NoSignal =>
                  /\ sout.path = strat.triangles[first]
                  /\ sout.profit_rate = TriangleRate(strat.triangles[first])
                  /\ sout.exchange = stick.exchange
            /\ shist.signals <= shist.n
            /\ (s1 /\ strat.prices[ETHUSDT][1] = Whole(2600)) =>
                  /\ sout # NoSignal
                  /\ sout.path = <<BTCUSDT, ETHBTC, ETHUSDT>>
                  /\ sout.profit_rate = <<1, 25>>
            /\ (s1 /\ strat.prices[ETHUSDT][1] = Whole(2490)
                   /\ ~({BNBBTC, BNBUSDT} \subseteq DOMAIN strat.prices)) =>
                  sout = NoSignal

\* C15, reached: with both fallback triangles cached and profitable at fee
\* 0 - the prices of S1, and BNBBTC ask 0.01, BNBUSDT bid 600 - the fifth
\* ticker was answered with the signal of the first triangle, at 0.04
C15_Witness ==
    /\ strat.ty = "Triangular" /\ shist.n = 5
    /\ strat.fee_rate = Whole(0) /\ strat.triangles = fallback_triangles
    /\ TriangleHit(1) /\ TriangleHit(2)
    /\ sout # NoSignal
    /\ sout.path = <<BTCUSDT, ETHBTC, ETHUSDT>>
    /\ sout.profit_rate = <<1, 25>>

\* C16 as stated: the signals a grid strategy has emitted are as many as the
\* grid lines that lay between last_trigger and the price of a ticker, over
\* all the tickers it handled - a ticker that jumps several lines, and one
\* outside [lower, upper], counted with the lines it passes.
C16_SignalsEqualLinesCrossed ==
    strat.ty = "Grid" => shist.signals = shist.lines

\* C16, amended: the signals a grid strategy has emitted are as many as the
\* tickers it handled whose price was inside [lower, upper] with at least
\* one grid line between last_trigger and the price: a ticker that jumps
\* several lines counts once, a ticker outside the range not at all.
C16_SignalsEqualCrossingTickers ==
    strat.ty = "Grid" => shist.signals = shist.crossings

\* C16, reached: a grid of 10 steps between 100 and 200 has handled three
\* tickers, the last at 141: two signals for two tickers that changed the
\* level inside the range, and more than two lines passed
C16_Witness ==
    /\ strat.ty = "Grid" /\ shist.n = 3
    /\ strat.grids[BNBUSDT].grid_count = 10
    /\ strat.grids[BNBUSDT].last_trigger = Whole(141)
    /\ stick.last = Whole(141)
    /\ shist.signals = 2 /\ shist.crossings = 2 /\ shist.lines > 2

\* the level of a price in a grid, without a division: the k with
\* lower + k * size <= p < lower + (k + 1) * size
LevelOf(g, p) ==
    CHOOSE k \in -(2 * g.grid_count)..(2 * g.grid_count) :
        /\ RLe(RAdd(g.lower_price, RMul(Whole(k), g.grid_size)), p)
        /\ RLt(p, RAdd(g.lower_price, RMul(Whole(k + 1), g.grid_size)))

\* C17: on_ticker of a grid strategy answers a signal exactly when the
\* ticker's symbol has a grid, lower <= price <= upper, and the levels
\* floor((price - lower) / size) of the price and of last_trigger differ;
\* the direction is buy when the price is below the last_trigger held before
\* the call and sell otherwise, profit_rate is size / price, and
\* last_trigger becomes the price; otherwise the strategy is as it was.
\* Scenario S4: lower 100, upper 200, count 10, last_trigger 150, price 141
\* gives buy and last_trigger 141.
C17_GridEmitsOnLevelChange ==
    [][ (strat.ty = "Grid" /\ shist'.n = shist.n + 1) =>
          LET t == stick'
              has == t.symbol \in DOMAIN strat.grids
              g == strat.grids[t.symbol]
              emits == /\ has
                       /\ RLe(g.lower_price, t.last) /\ RLe(t.last, g.upper_price)
                       /\ LevelOf(g, t.last) # LevelOf(g, g.last_trigger)
          IN  /\ (sout' # NoSignal) <=> emits
              /\ emits =>
                    /\ sout'.path = <<t.symbol,
                                      IF RLt(t.last, g.last_trigger) THEN "buy" ELSE "sell",
                                      t.last>>
                    /\ TimesIs(sout'.profit_rate, t.last, g.grid_size)
                    /\ strat'.grids[t.symbol].last_trigger = t.last
                    /\ strat' = [strat EXCEPT !.grids[t.symbol].last_trigger = t.last]
              /\ ~emits => strat' = strat
              /\ (has /\ g.lower_price = Whole(100) /\ g.upper_price = Whole(200)
                    /\ g.grid_count = 10 /\ g.last_trigger = Whole(150)
                    /\ t.last = Whole(141)) =>
                    /\ sout' # NoSignal /\ sout'.path[2] = "buy"
                    /\ strat'.grids[t.symbol].last_trigger = Whole(141)
      ]_vars

\* C17, reached: scenario S4 - the first ticker of a grid of 10 steps
\* between 100 and 200, at 141, was answered with buy at profit rate 10/141
\* and last_trigger is 141
C17_Witness ==
    /\ strat.ty = "Grid" /\ shist.n = 1
    /\ strat.grids[BNBUSDT].grid_count = 10
    /\ sout # NoSignal
    /\ sout.path = <<BNBUSDT, "buy", Whole(141)>>
    /\ sout.profit_rate = <<10, 141>>
    /\ strat.grids[BNBUSDT].last_trigger = Whole(141)

\* the last k entries of a sequence (all of it when it is shorter)
LastEntries(seq, k) ==
    IF Len(seq) <= k THEN seq ELSE SubSeq(seq, Len(seq) - k + 1, Len(seq))

\* C18: every price history of a pair strategy holds at most window_size
\* entries, and they are the most recent prices of its symbol in arrival
\* order: the oldest entry is the one evicted.
C18_HistoryIsRecentWindow ==
    strat.ty = "Pair" =>
        /\ DOMAIN strat.price_history = DOMAIN shist.arrived
        /\ \A sym \in DOMAIN strat.price_history :
              /\ Len(strat.price_history[sym]) <= strat.window_size
              /\ strat.price_history[sym] =
                    LastEntries(shist.arrived[sym], strat.window_size)

\* C18, reached: with window_size 2, BTCUSDT arrived at 1, 2 and 1 and its
\* history is 2, 1
C18_Witness ==
    /\ strat.ty = "Pair" /\ strat.window_size = 2
    /\ BTCUSDT \in DOMAIN strat.price_history
    /\ shist.arrived[BTCUSDT] = <<Whole(1), Whole(2), Whole(1)>>
    /\ strat.price_history[BTCUSDT] = <<Whole(2), Whole(1)>>

\* the symbols that are a leg of some pair
PairLegs == {pairs[i][k] : i \in 1..Len(pairs), k \in 1..2}

\* C19: a pair strategy answers a signal for a pair only when the histories
\* of both legs hold window_size entries and the ticker's symbol is one of
\* the two legs; a ticker of a symbol that is no leg gets no signal.
C19_PairSignalNeedsFullLegs ==
    (strat.ty = "Pair" /\ shist.n > 0) =>
        /\ sout # NoSignal =>
              /\ \A k \in 1..2 :
                    /\ sout.path[k] \in DOMAIN strat.price_history
                    /\ Len(strat.price_history[sout.path[k]]) = strat.window_size
              /\ stick.symbol \in {sout.path[1], sout.path[2]}
              /\ \E i \in 1..Len(pairs) : pairs[i] = <<sout.path[1], sout.path[2]>>
        /\ stick.symbol \notin PairLegs => sout = NoSignal

\* C19, reached: with window_size 2 and threshold 0.75 the fourth ticker,
\* of ETHUSDT, filled the second history and was answered with a signal
C19_Witness ==
    /\ strat.ty = "Pair" /\ strat.window_size = 2 /\ shist.n = 4
    /\ strat.zscore_threshold = <<3, 4>>
    /\ stick.symbol = ETHUSDT
    /\ sout # NoSignal
    /\ sout.path[1] = BTCUSDT /\ sout.path[2] = ETHUSDT
    /\ sout.confidence = <<2, 3>>

\* C20: the edges a graph strategy stores never exceed the configured
\* window size.
C20_EdgesWithinWindow ==
    strat.ty = "Graph" =>
        Cardinality(DOMAIN strat.edges) <= strat.config.window_size[1]

\* C21: on an edge set without a cycle of negative total weight that the
\* source reaches (so on every edge set without a directed cycle),
\* detect_negative_cycle reports nothing, in whatever order the edges are
\* iterated.
C21_NoCycleNoReport ==
    (mainPc = "detect" /\ shist.n = 1 /\ ~NegativeCycleReachable(strat.edges))
        => shist.cycle = <<"None">>

\* C21, reached: three edges without a directed cycle, two of them of
\* negative weight, iterated with the edge out of the source last: nothing
\* is reported
C21_Witness ==
    /\ mainPc = "detect" /\ shist.n = 1
    /\ DirectedCycles(strat.edges) = {}
    /\ DOMAIN strat.edges = {<<nodes[1], nodes[2]>>, <<nodes[2], nodes[3]>>,
                             <<nodes[1], nodes[3]>>}
    /\ strat.edges[<<nodes[1], nodes[2]>>] = Whole(2)
    /\ strat.edges[<<nodes[2], nodes[3]>>] = Whole(2)
    /\ shist.order[3] = <<nodes[1], nodes[2]>>
    /\ shist.cycle = <<"None">>

\* C22: in a running engine the funding_rates map of a funding-rate strategy
\* stays empty, and each on_ticker call on it answers None and changes
\* nothing but the spot price recorded for the ticker's symbol.
C22_FundingRateNeverEmits ==
    /\ [](\A i \in DOMAIN registry :
            registry[i].ty = "FundingRate" => registry[i].funding_rates = <<>>)
    /\ [][(shist'.n = shist.n + 1 /\ registry[sIdx].ty = "FundingRate") =>
            /\ sout' = NoSignal
            /\ emitted' = emitted
            /\ registry' = [registry EXCEPT ![sIdx].spot_prices =
                                insert(@, ticker.symbol, ticker.last)]]_vars

\* C22, reached: a funding-rate strategy has been given two tickers of
\* different symbols, holds both spot prices and has answered None
C22_Witness ==
    /\ mainPc = "run" /\ shist.n >= 2
    /\ strat.ty = "FundingRate"
    /\ \E i \in DOMAIN registry : registry[i] = strat
    /\ DOMAIN strat.spot_prices = {BTCUSDT, BNBUSDT}
    /\ strat.spot_prices[BNBUSDT] = Whole(141)
    /\ strat.funding_rates = <<>>
    /\ sout = NoSignal /\ emitted = 0

\* the caches Strategy::shutdown is to leave empty; the state of a grid
\* strategy counts as cleared when its grids are gone or back to what
\* GridStrategy::new made of the configuration
CachesEmpty(s) ==
    CASE s.ty = "Triangular"  -> s.prices = <<>>
      [] s.ty = "Graph"       -> s.edges = <<>>
      [] s.ty = "FundingRate" -> (s.funding_rates = <<>> /\ s.spot_prices = <<>>
                                  /\ s.perp_prices = <<>>)
      [] s.ty = "Pair"        -> s.price_history = <<>>
      [] s.ty = "Grid"        -> (s.positions = <<>>
                                  /\ (s.grids = <<>>
                                      \/ s.grids = GridStrategy_new(s.config).grids))

\* C30: after Ctrl-C, Engine::shutdown leaves running false and the caches
\* of every strategy of the registry empty (grid state included), and from
\* the Ctrl-C on no strategy is given a ticker.
C30_ShutdownClearsAll ==
    /\ [](mainPc = "done" =>
            /\ ~running
            /\ \A i \in DOMAIN registry : CachesEmpty(registry[i]))
    /\ [][(mainPc = "shutdown" \/ mainPc = "done") =>
            (given' = given /\ shist' = shist /\ taken' = taken)]_vars

\* C23: when the query yields at least one enabled row the registry holds
\* one strategy per row, in the rows' ascending priority order, and no
\* default strategy; with no row and at least one connected exchange it
\* holds exactly one default Triangular strategy, bound to Binance if
\* connected, else to Okx if connected, else to one of the connected
\* exchanges; with no row and no exchange it stays empty and the load
\* succeeds.
C23_LoadRule ==
    shist.n = 1 =>
        /\ shist.query = "ok" => mainPc = "loaded"
        /\ (mainPc = "loaded" /\ store # <<>>) =>
              /\ Len(registry) = Len(store)
              /\ \A i \in 1..Len(store) :
                    /\ registry[i] = create_strategy(store[i])
                    /\ registry[i].ty = store[i].strategy_type
                    /\ "default" \notin DOMAIN registry[i].config
              /\ \A i \in 1..(Len(registry) - 1) :
                    registry[i].config.priority <= registry[i + 1].config.priority
        /\ (mainPc = "loaded" /\ store = <<>> /\ exchanges # {}) =>
              /\ Len(registry) = 1
              /\ registry[1].ty = "Triangular"
              /\ registry[1].config.default
              /\ registry[1].config.exchange_id =
                    (IF "Binance" \in exchanges THEN "binance"
                     ELSE IF "Okx" \in exchanges THEN "okx"
                     ELSE registry[1].config.exchange_id)
              /\ registry[1].config.exchange_id \in {Lower(e) : e \in exchanges}
        /\ (mainPc = "loaded" /\ store = <<>> /\ exchanges = {}) =>
              registry = <<>>

\* the load has built the default strategy for exchanges without Binance and
\* Okx
C23_Witness ==
    /\ mainPc = "loaded" /\ store = <<>>
    /\ Cardinality(exchanges) >= 2
    /\ "Binance" \notin exchanges /\ "Okx" \notin exchanges
    /\ Len(registry) = 1 /\ registry[1].config.exchange_id = "gate"

\* C24: for the k distinct bases the default configuration was built from,
\* build_triangles gave one triangle (a sep USDT, b sep a, b sep USDT) per
\* ordered pair (a, b) of different bases, k(k-1) in total, with '-' as the
\* separator for Okx and none otherwise, and the default strategy monitors
\* exactly these triangles.
C24_DefaultMonitorsBuiltTriangles ==
    (mainPc = "loaded" /\ store = <<>> /\ Len(registry) = 1) =>
        LET config == registry[1].config
            k == Len(config.bases)
            sep == IF shist.exchange = {"Okx"} THEN <<"-">> ELSE <<>>
            form(a, b) == << <<a>> \o sep \o <<"USDT">>, <<b>> \o sep \o <<a>>,
                             <<b>> \o sep \o <<"USDT">> >>
            built == config.triangles
        IN  /\ Len(built) = k * (k - 1)
            /\ \A i, j \in 1..k : i # j =>
                  Cardinality({n \in 1..Len(built) :
                      built[n] = form(config.bases[i], config.bases[j])}) = 1
            /\ registry[1].triangles = built

\* C25: when start returned an error, after the failed connect or after the
\* failed subscribe send, the connector has no reader task: its reader never
\* runs and it never broadcasts a ticker.
C25_FailedStartNoReader ==
    /\ [](\A c \in ExchangeIds :
             readerPc[c] = "start_err" => (sent[c] = 0 /\ bq[c] = <<>>))
    /\ [][\A c \in ExchangeIds :
             readerPc[c] = "start_err" =>
                 (readerPc'[c] = "start_err" /\ sent'[c] = 0 /\ bq'[c] = <<>>)]_vars

\* C25, reached: the subscribe send of Binance failed (active is set), a
\* forwarder waits on its channel, and the loop took the tickers of Okx
C25_Witness ==
    /\ readerPc["Binance"] = "start_err" /\ active["Binance"]
    /\ fpc["Binance"] = "recv"
    /\ lastTaken["Okx"] = MaxTickers

\* C26: a read error or the end of the stream of one connector ends that
\* connector's reader and nothing else: the step leaves the engine loop, the
\* other reader, the forwarders and the channels as they are, and every
\* ticker of the other connector that its forwarder holds after that is
\* taken by the loop, unless Ctrl-C stops the run first.
C26_ReaderExitIsLocal ==
    /\ [][\A c \in ExchangeIds :
             (readerPc[c] = "read" /\ readerPc'[c] = "exited") =>
                 /\ \A d \in ExchangeIds \ {c} : readerPc'[d] = readerPc[d]
                 /\ UNCHANGED <<mainPc, running, epc, rxAlive, active, subscribed,
                                bq, lag, fpc, fhold, mq, taken, ticker>>]_vars
    /\ \A c \in ExchangeIds : \A d \in ExchangeIds \ {c} : \A n \in 1..MaxTickers :
          (readerPc[c] = "exited" /\ fhold[d] = Ticker(d, n))
              ~> (lastTaken[d] >= n \/ mainPc # "run")

\* C26, reached: the reader of Binance ended on a read error (its connector
\* is still active) before it sent anything, the reader of Okx runs, and the
\* loop took the tickers of Okx
C26_Witness ==
    /\ readerPc["Binance"] = "exited" /\ active["Binance"] /\ sent["Binance"] = 0
    /\ readerPc["Okx"] \in {"check", "read"}
    /\ lastTaken["Okx"] = MaxTickers
    /\ mainPc = "run" /\ epc = "recv"

\* what C27 says of a forwarder apart from the fate of the ticker it holds:
\* Lagged leaves it waiting for the next ticker, it ends only once the
\* central channel is closed (the model has no Closed: the senders of the
\* broadcast channels live in the exchanges map), and the central channel
\* grows only by the ticker a forwarder holds, which that forwarder then no
\* longer holds
ForwarderSteps ==
    \A c \in ExchangeIds :
        /\ (fpc[c] = "recv" /\ lag[c] > 0 /\ lag'[c] = 0) =>
               (fpc'[c] = "recv" /\ mq' = mq /\ bq'[c] = bq[c])
        /\ (fpc[c] # "exited" /\ fpc'[c] = "exited") => ~rxAlive
        /\ (fpc[c] = "recv" /\ fpc'[c] = "send") =>
               (fhold'[c] = Head(bq[c]) /\ mq' = mq)
        /\ (Len(mq') > Len(mq)) =>
               \E d \in ExchangeIds :
                   /\ fpc[d] = "send" /\ fhold'[d] = <<>>
                   /\ mq' = Append(mq, fhold[d])

\* the tickers of connector c in the central channel, oldest first
QueuedOf(c) == SelectSeq(mq, LAMBDA t : t[1] = c)

\* no ticker is in flight twice: per connector, the numbers of the tickers
\* taken, queued, held and retained are strictly increasing in that order
NoDuplicates ==
    \A c \in ExchangeIds :
        LET path == <<Ticker(c, lastTaken[c])>> \o QueuedOf(c)
                      \o (IF fhold[c] = <<>> THEN <<>> ELSE <<fhold[c]>>) \o bq[c]
        IN  \A i \in 1..(Len(path) - 1) : path[i][2] < path[i + 1][2]

\* C27 as stated: on Lagged(n) the forwarder keeps running, it terminates
\* only on Closed or on the central channel being closed, and each ticker it
\* receives is put on the central channel exactly once, never duplicated and
\* never dropped by the forwarder.
C27_ForwardedExactlyOnce ==
    /\ []NoDuplicates
    /\ [][ForwarderSteps]_vars
    /\ [][\A c \in ExchangeIds :
             (fpc[c] = "send" /\ fpc'[c] # "send") =>
                 mq' = Append(mq, fhold[c])]_vars

\* C27, amended: the same, except for the ticker a forwarder holds when the
\* central channel is closed, which is discarded as the forwarder terminates.
C27_ForwardedOnceWhileOpen ==
    /\ []NoDuplicates
    /\ [][ForwarderSteps]_vars
    /\ [][\A c \in ExchangeIds :
             (fpc[c] = "send" /\ fpc'[c] # "send") =>
                 \/ rxAlive /\ fpc'[c] = "recv" /\ mq' = Append(mq, fhold[c])
                 \/ ~rxAlive /\ fpc'[c] = "exited" /\ mq' = mq]_vars

\* C27, reached: the first ticker of Binance was overwritten before its
\* forwarder read it (Lagged), and the loop has taken the second, which the
\* forwarder passed on after that
C27_Witness ==
    /\ lastTaken["Binance"] = 2 /\ taken = 1
    /\ lag["Binance"] = 0
    /\ fpc["Binance"] = "recv"

C29_NoExchangeNoRun ==
    /\ [](epc = "returned" =>
             /\ exchanges = {}
             /\ \A c \in ExchangeIds : fpc[c] = "none" /\ ~subscribed[c]
             /\ ~rxAlive /\ mq = <<>>
             /\ taken = 0 /\ emitted = 0 /\ given = <<>> /\ pubs = {})
    /\ [][/\ (epc = "start" /\ exchanges = {} /\ epc' # epc) => epc' = "returned"
          /\ epc = "returned" => epc' = "returned"]_vars

\* C29, reached: run returned the error for a registry that holds
\* strategies, and main went on to the shutdown
C29_Witness ==
    /\ epc = "returned" /\ exchanges = {}
    /\ Len(registry) = MaxStrategies
    /\ mainPc = "done"

\* C31: for a path whose legs are joined by the arrow the strategies write
\* (a triangular path of three symbols, say), the payload's symbol is the
\* first leg and rawOpportunity.symbols lists each leg separately.
C31_SymbolIsFirstLeg ==
    (shist.n = 1 /\ sout.sep = StrategySep /\ sout.legs # <<>>) =>
        /\ shist.payload.symbol = sout.legs[1]
        /\ shist.payload.rawOpportunity.symbols = sout.legs

BuyEdges ==
    {<<parse_pair(t.symbol)[3], parse_pair(t.symbol)[2]>> :
        t \in {u \in GraphTickers : parse_pair(u.symbol)[1] = "Some"}}

\* the exchange rate along a stored edge, after the fee: (1 - f) / ask units
\* of base per unit of quote on a buy edge, bid * (1 - f) units of quote per
\* unit of base on a sell edge
exchange_rate(s, e) ==
    LET keep == RSub(Whole(1), s.fee_rate)
    IN  IF e \in BuyEdges THEN RDiv(RMul(keep, keep), s.edges[e])
        ELSE RDiv(Whole(1), s.edges[e])

RECURSIVE RateProduct(_, _)
RateProduct(s, es) ==
    IF es = <<>> THEN Whole(1)
    ELSE RMul(exchange_rate(s, Head(es)), RateProduct(s, Tail(es)))

\* C33: the graph strategy emits a signal only for a real arbitrage.  With
\* nothing in its edge set but the two edges of one symbol whose bid is not
\* above its ask it emits nothing, whatever the order the edges are iterated
\* in; and whenever it emits, the product of the fee-adjusted exchange rates
\* around some cycle of its edges exceeds 1 + min_profit_rate.
C33_GraphSignalsOnlyArbitrage ==
    (strat.ty = "Graph" /\ shist.n >= 1) =>
        /\ (/\ parse_pair(stick.symbol)[1] = "Some"
            /\ Cardinality(DOMAIN strat.edges) = 2
            /\ RLe(stick.bid, stick.ask)) => sout = NoSignal
        /\ sout # NoSignal =>
              \E c \in DirectedCycles(strat.edges) :
                  RLt(RAdd(Whole(1), strat.min_profit_rate), RateProduct(strat, c))

\* C34: a path detect_negative_cycle reports has at most n + 1 entries, no
\* node twice, only names of graph nodes (no empty name of a missing parent)
\* and a stored edge from each entry to the next.
C34_ReportedPathWellFormed ==
    (mainPc = "detect" /\ shist.n = 1 /\ shist.cycle[1] = "Some") =>
        LET path == shist.cycle[2]
        IN  /\ Len(path) <= Len(nodes) + 1
            /\ \A i, j \in 1..Len(path) : i # j => path[i] # path[j]
            /\ \A i \in 1..Len(path) : path[i] \in NodeSet
            /\ \A i \in 1..(Len(path) - 1) :
                  <<path[i], path[i + 1]>> \in DOMAIN strat.edges

\* C34, reached: the path reported leads from the source over the cycle's
\* two nodes, three entries over two stored edges
C34_Witness ==
    /\ mainPc = "detect" /\ shist.n = 1
    /\ shist.cycle[1] = "Some"
    /\ shist.cycle[2] = <<nodes[1], nodes[2], nodes[3]>>

\* C35: every triangular signal is computed from prices of one venue: the
\* cached prices of its three legs all came from tickers of the exchange the
\* signal names.
C35_TriangularOneVenue ==
    (strat.ty = "Triangular" /\ sout # NoSignal) =>
        \A i \in 1..3 : shist.venue[sout.path[i]] = sout.exchange

\* C36: a ticker a grid strategy answers with no signal leaves the strategy
\* as it was; in every state lower <= last_trigger <= upper for every grid;
\* and two tickers in a row with the same symbol and price are never both
\* answered with a signal.
C36_GridQuietTickerChangesNothing ==
    /\ [](strat.ty = "Grid" =>
            \A sym \in DOMAIN strat.grids :
                /\ RLe(strat.grids[sym].lower_price, strat.grids[sym].last_trigger)
                /\ RLe(strat.grids[sym].last_trigger, strat.grids[sym].upper_price))
    /\ [][ (strat.ty = "Grid" /\ shist'.n = shist.n + 1) =>
             /\ sout' = NoSignal => strat' = strat
             /\ (sout # NoSignal /\ stick'.symbol = stick.symbol
                   /\ stick'.last = stick.last) => sout' = NoSignal
         ]_vars

\* C37: a connector's active flag is true exactly while its reader task
\* runs: false before start and after a start that returned an error, and
\* false once the reader has ended.
C37_ActiveIffReaderRuns ==
    \A c \in ExchangeIds : active[c] <=> readerPc[c] \in {"check", "read"}

\* C38: after stop() has returned, the reader of the connection
\* broadcasts at most one more ticker, and a reader that finds the flag
\* false at its loop check ends.
C38_AtMostOneTickerAfterStop ==
    /\ [](\A c \in ExchangeIds : shist.late[c] <= 1)
    /\ [][ \A c \in ExchangeIds :
             (readerPc[c] = "check" /\ ~active[c] /\ readerPc'[c] # "check")
                => readerPc'[c] = "exited" ]_vars

\* what makes a frame a ticker of a connection: the 24hrTicker event with
\* all its fields on Binance, the data array with a full first entry on Okx
IsTickerFrame(c, f) ==
    \/ c = "Binance" /\ f = BinanceTickerFrame
    \/ c = "Okx" /\ f = OkxTickerFrame

\* C39: a text frame that is no ticker of the connection, a frame that is no
\* text, and a send without a subscriber leave the reader running (it is
\* back at its loop check) and produce no ticker; a ticker frame is passed
\* to the broadcast channel whatever was read before it, and is retained
\* when a receiver exists.
C39_OddFramesKeepReader ==
    [][ \A c \in ExchangeIds :
          (readerPc[c] = "read" /\ shist'.n = shist.n + 1) =>
            LET f == Head(shist.frames)
            IN  /\ f.kind \notin {"Err", "End"} => readerPc'[c] = "check"
                /\ ~IsTickerFrame(c, f) =>
                      sent'[c] = sent[c] /\ bq'[c] = bq[c]
                /\ IsTickerFrame(c, f) =>
                      /\ sent'[c] = sent[c] + 1
                      /\ subscribed[c] =>
                            /\ bq'[c] # <<>>
                            /\ bq'[c][Len(bq'[c])].exchange = c
                            /\ bq'[c][Len(bq'[c])].bid = Whole(100)
                      /\ ~subscribed[c] => bq'[c] = bq[c]
                /\ active' = active
      ]_vars

\* C39, reached: a connection with a receiver has read a text frame that is
\* no ticker and then a ticker frame, which is in the broadcast channel
C39_Witness ==
    \E c \in ExchangeIds :
        /\ shist.n = 2
        /\ shist.seen[1] \in OtherTextFrames \cup OtherFrames
        /\ IsTickerFrame(c, shist.seen[2])
        /\ subscribed[c] /\ sent[c] = 1 /\ Len(bq[c]) = 1
        /\ readerPc[c] = "check" /\ active[c]

\* every connector's start has failed or its reader has ended, and no ticker
\* is left on the way to the engine loop
SourcesEnded ==
    /\ exchanges # {}
    /\ \A c \in exchanges :
          /\ readerPc[c] \in {"exited", "start_err"}
          /\ bq[c] = <<>> /\ fhold[c] = <<>>
    /\ mq = <<>>

\* C40: once every ticker source has ended while the engine loop waits on
\* the central channel, Engine::run eventually returns.
C40_RunReturnsWhenSourcesEnd ==
    (epc = "recv" /\ SourcesEnded) ~> (epc = "returned")

====
